---- MODULE Spec2Model ----
(***************************************************************************)
(* A model of the control/state machinery of the ANCHOR tools:             *)
(*   - the idempotent writer of Tools/improve_features_v2.py               *)
(*     (normalize_text, atomic_write and the written-hashes ledger);       *)
(*   - the issue-signature matcher of Tools/ai_fix.py                      *)
(*     (token_overlap, same_issue_sig);                                    *)
(*   - the runs of Tools/ai_fix.py over its issue memory: auto-forget,     *)
(*     reuse of stored resolutions, and the analyze/rewrite/self-check     *)
(*     loop of ai_analyze_then_fix;                                        *)
(*   - the think passes of main in Tools/improve_features_v2.py and the    *)
(*     stable proposals kept from them;                                    *)
(*   - two concurrent runs inside atomic_write, a run of ai_fix.py over a  *)
(*     working tree with failing writes, the queue of ai_features.py, and  *)
(*     the processed set of improve_features_v2.py under crashes.          *)
(* Text is a sequence of characters; a character is a one-symbol string.   *)
(***************************************************************************)
EXTENDS Integers, Sequences, FiniteSets, TLC

----------------------------------------------------------------------------
(* Characters *)

SP == "SP"
LF == "LF"
CR == "CR"
TAB == "TAB"
DOT == "."

\* the characters str.rstrip() with no argument removes
Whitespace == {SP, LF, CR, TAB}

\* the characters of the texts normalize_text is checked on
Chars == {"a", SP, LF, CR}

\* the characters of file contents in the writer's state machine
FileChars == {"a", SP, LF}

\* the characters str.isalpha() accepts, among those the model's names use
Letters == {"a", "b", "c", "d", "e", "f", "i", "l", "m", "p", "s", "t", "w", "y"}

\* bounds
MaxStrLen == 4
MaxContentLen == 2

\* all texts over the characters cs of length at most n
Strs(cs, n) == UNION {[1..k -> cs] : k \in 0..n}

----------------------------------------------------------------------------
(* normalize_text and sha256_text *)

\* s.replace("\r\n", "\n"): left to right, non-overlapping
RECURSIVE ReplaceCRLF(_)
ReplaceCRLF(s) ==
    IF s = <<>> THEN <<>>
    ELSE IF Len(s) >= 2 /\ s[1] = CR /\ s[2] = LF
         THEN <<LF>> \o ReplaceCRLF(SubSeq(s, 3, Len(s)))
         ELSE <<s[1]>> \o ReplaceCRLF(Tail(s))

\* s.replace("\r", "\n")
ReplaceCR(s) == [i \in 1..Len(s) |-> IF s[i] = CR THEN LF ELSE s[i]]

\* s.split("\n"): always at least one line
RECURSIVE SplitLines(_)
SplitLines(s) ==
    IF \A i \in 1..Len(s) : s[i] # LF THEN <<s>>
    ELSE LET i == CHOOSE j \in 1..Len(s) :
                      s[j] = LF /\ \A k \in 1..(j - 1) : s[k] # LF
         IN  <<SubSeq(s, 1, i - 1)>> \o SplitLines(SubSeq(s, i + 1, Len(s)))

\* str.rstrip()
RECURSIVE rstrip(_)
rstrip(s) ==
    IF s # <<>> /\ s[Len(s)] \in Whitespace
    THEN rstrip(SubSeq(s, 1, Len(s) - 1))
    ELSE s

\* the loop over lines: a blank line that follows a blank line is skipped
RECURSIVE CollapseBlank(_, _)
CollapseBlank(lines, prev_blank) ==
    IF lines = <<>> THEN <<>>
    ELSE LET ln == Head(lines)
             is_blank == (ln = <<>>)
         IN  IF is_blank /\ prev_blank
             THEN CollapseBlank(Tail(lines), prev_blank)
             ELSE <<ln>> \o CollapseBlank(Tail(lines), is_blank)

\* "\n".join(lines)
RECURSIVE JoinLines(_)
JoinLines(lines) ==
    IF lines = <<>> THEN <<>>
    ELSE IF Len(lines) = 1 THEN Head(lines)
    ELSE Head(lines) \o <<LF>> \o JoinLines(Tail(lines))

\* normalize_text without the final rstrip
normalize_text_keeps_tail(s) ==
    LET unified   == ReplaceCR(ReplaceCRLF(s))
        split     == SplitLines(unified)
        lines     == [i \in 1..Len(split) |-> rstrip(split[i])]
        out_lines == CollapseBlank(lines, FALSE)
    IN  JoinLines(out_lines) \o <<LF>>

normalize_text(s) ==
    LET unified   == ReplaceCR(ReplaceCRLF(s))
        split     == SplitLines(unified)
        lines     == [i \in 1..Len(split) |-> rstrip(split[i])]
        out_lines == CollapseBlank(lines, FALSE)
    IN  rstrip(JoinLines(out_lines)) \o <<LF>>

\* sha256 of a text: collision-free, and never equal to the absent entry
sha256_text(s) == <<"sha256">> \o s

----------------------------------------------------------------------------
(* Paths, the disk and the written-hashes ledger *)

\* module constants of improve_features_v2.py
ALLOW_CREATE == FALSE

\* what a path holds: a regular file with its text, a directory, or nothing
File(text) == [kind |-> "file", text |-> text]
NoFile == [kind |-> "none", text |-> <<>>]
Dir == [kind |-> "dir", text |-> <<>>]

\* the absent ledger entry: hashes.get(key) is None
NoHash == <<>>

\* file names, one for each way through the suspicious-name guard
EmptyName == <<>>
RegularName == <<"f", DOT, "s", "w", "i", "f", "t">>
Names ==
    { EmptyName,                                \* Path(".").name
      <<"p", "y">>,                             \* a listed bad name
      <<"t", "m", "p", "f", "i", "l", "e">>,    \* a listed bad name, long
      <<"a", "b">>,                             \* short, alphabetic, no suffix
      <<"a", "1">>,                             \* short, no suffix, not alphabetic
      <<"a", DOT, "b">>,                        \* short, with a suffix
      <<"a", "b", "c", "d">>,                   \* four letters, no suffix
      RegularName }

\* directories: "d" exists, "m" does not
ExistingDir == "d"
MissingDir == "m"

\* the targets atomic_write is called on
Targets ==
    {[dir |-> ExistingDir, name |-> n] : n \in Names}
        \cup {[dir |-> MissingDir, name |-> RegularName]}

\* another file of the tree, never a target
Other == [dir |-> ExistingDir, name |-> <<"w", DOT, "p", "y">>]
OtherText == <<"a", "a", LF>>

\* PurePath.suffix of a file name
suffix(name) ==
    IF \A i \in 1..Len(name) : name[i] # DOT THEN <<>>
    ELSE LET i == CHOOSE j \in 1..Len(name) :
                      name[j] = DOT /\ \A k \in (j + 1)..Len(name) : name[k] # DOT
         IN  IF 0 < i - 1 /\ i - 1 < Len(name) - 1
             THEN SubSeq(name, i, Len(name))
             ELSE <<>>

\* str.isalpha()
isalpha(name) == name # <<>> /\ \A i \in 1..Len(name) : name[i] \in Letters

TmpSuffix == <<DOT, "t", "m", "p">>

\* the new text written straight to the target
write_in_place(path) == path

\* path.with_suffix(path.suffix + ".tmp"); raises on an empty name
with_suffix_tmp(path) ==
    [dir |-> path.dir,
     name |-> SubSeq(path.name, 1, Len(path.name) - Len(suffix(path.name)))
                  \o suffix(path.name) \o TmpSuffix]

\* the paths whose state the model follows for target t
PathsOf(t) == {t, with_suffix_tmp(t), Other}

bad_names == {<<"p", "y">>, <<"t", "m", "p">>,
              <<"t", "m", "p", "f", "i", "l", "e">>, <<>>}

suspicious_short(name) == Len(name) <= 3 /\ suffix(name) = <<>> /\ isalpha(name)

\* the guard with the listed names only
listed_names_only(name) == name \in bad_names

\* the suspicious-filename guard of atomic_write
SuspiciousName(name) == name \in bad_names \/ suspicious_short(name)

\* Path.exists()
exists(d, path) == d[path].kind # "none"

\* the contents handed to atomic_write, and found on disk
Contents == Strs(FileChars, MaxContentLen)

----------------------------------------------------------------------------
(* State *)

VARIABLES
    AGGRESSIVE,     \* the module flag main() sets from --no-aggressive
    target,         \* the path atomic_write is called on
    dirs,           \* the directories that exist
    disk,           \* path -> what it holds
    ledger,         \* written_hashes.json: path -> hash, NoHash when absent
    last,           \* the last completed call of atomic_write and its result
    pc,             \* the position of the call, or of the run, in progress
    cur,            \* the locals of the call, or of the run, in progress
    arg,            \* the input of a pure function under check, or the
                    \* command line and the log of the run in progress
    res             \* its outputs, or the lines the run printed

vars == <<AGGRESSIVE, target, dirs, disk, ledger, last, pc, cur, arg, res>>

\* the record of a completed call:
\*   seq       alternates from call to call
\*   contents  the text handed over, kept for a call with dry off
\*   ret       the value returned, reason  the line logged for it
\*   cached    the ledger entry equalled the new hash when the call began
\*   repeats   the call before had the same arguments, and returned prev_ret
NoCall == [called |-> FALSE, seq |-> 0, contents |-> <<>>, dry |-> FALSE,
           ret |-> FALSE, reason |-> "none", cached |-> FALSE,
           repeats |-> FALSE, prev_ret |-> FALSE]
NoCur == [contents |-> <<>>, new_norm |-> <<>>, old |-> NoFile,
          old_ledger |-> NoHash, hashes |-> <<>>, ret |-> FALSE,
          reason |-> "none"]
NoArg == <<>>
NoRes == <<>>

\* a written_hashes.json that is missing, empty or not valid JSON loads as {}
EmptyLedger(t) == [p \in {t, Other} |-> NoHash]

----------------------------------------------------------------------------
(* atomic_write, decision by decision *)

\* the creation check left out
creation_never_refused(d, path) == FALSE

\* ALLOW_CREATE is off and the target does not exist
creation_refused(d, path) == ~ALLOW_CREATE /\ ~exists(d, path)

\* path.read_text() succeeds: the path holds a regular file
readable(d, path) == d[path].kind = "file"

\* the first comparison on the raw on-disk text
same_normalized_raw_only(d, path, new_hash) ==
    /\ d[path].kind = "file"
    /\ sha256_text(d[path].text) = new_hash

\* first comparison: the normalized on-disk text hashes to new_hash
same_normalized(d, path, new_hash) ==
    /\ exists(d, path)
    /\ readable(d, path)
    /\ sha256_text(normalize_text(d[path].text)) = new_hash

\* second comparison: the raw on-disk text hashes to new_hash
same_raw(d, path, new_hash) ==
    /\ exists(d, path)
    /\ readable(d, path)
    /\ sha256_text(d[path].text) = new_hash

\* the shortcut trusting the cached hash alone
cached_trusted(d, h, path, new_hash) == ~AGGRESSIVE /\ h[path] = new_hash

\* the non-aggressive shortcut: the cached hash and the raw on-disk hash agree
cached_identical(d, h, path, new_hash) ==
    /\ ~AGGRESSIVE
    /\ h[path] = new_hash
    /\ exists(d, path)
    /\ readable(d, path)
    /\ sha256_text(d[path].text) = new_hash

\* the parent directory is missing and may not be created
parent_refused(ds, path) == ~ALLOW_CREATE /\ path.dir \notin ds

\* the ledger left as loaded
set_hash_skipped(h, path, new_hash) == h

\* hashes[str(path)] = new_hash
set_hash(h, path, new_hash) == [h EXCEPT ![path] = new_hash]

\* the temporary file written and never renamed
write_without_replace(d, path, new_norm) ==
    [d EXCEPT ![with_suffix_tmp(path)] = File(new_norm)]

\* tmp.write_text(new_norm) then tmp.replace(path)
write_and_replace(d, path, new_norm) ==
    [d EXCEPT ![with_suffix_tmp(path)] = NoFile, ![path] = File(new_norm)]

\* how a call with dry off ends, decided by its guards and comparisons,
\* which only read
outcome(d, h, ds, path, contents) ==
    LET new_hash == sha256_text(normalize_text(contents))
    IN  IF creation_refused(d, path) THEN "creation_disabled"
        ELSE IF SuspiciousName(path.name) THEN "suspicious"
        ELSE IF same_normalized(d, path, new_hash) THEN "noop"
        ELSE IF same_raw(d, path, new_hash) THEN "noop"
        ELSE IF cached_identical(d, h, path, new_hash) THEN "cached"
        ELSE IF parent_refused(ds, path) THEN "parent_missing"
        ELSE IF path.name = EmptyName THEN "error"       \* with_suffix raises
        ELSE IF exists(d, path) /\ ~readable(d, path)
             THEN "error"                                \* replace onto a directory raises
        ELSE "wrote"

\* the call with dry off: the value returned and the state it leaves
atomic_write_real(d, h, ds, path, contents) ==
    LET new_norm == normalize_text(contents)
        new_hash == sha256_text(new_norm)
        how      == outcome(d, h, ds, path, contents)
    IN  IF how = "wrote"
        THEN [ret    |-> TRUE, reason |-> how,
              disk   |-> write_and_replace(d, path, new_norm),
              ledger |-> set_hash(h, path, new_hash),
              dirs   |-> IF ALLOW_CREATE THEN ds \cup {path.dir} ELSE ds]
        ELSE IF how = "noop"
        THEN [ret |-> FALSE, reason |-> how, disk |-> d,
              ledger |-> set_hash(h, path, new_hash), dirs |-> ds]
        ELSE [ret |-> FALSE, reason |-> how, disk |-> d, ledger |-> h,
              dirs |-> ds]

\* the call with the dry flag ignored
atomic_write_ignores_dry(d, h, ds, path, contents, dry) ==
    atomic_write_real(d, h, ds, path, contents)

\* the whole call
atomic_write(d, h, ds, path, contents, dry) ==
    IF dry
    THEN [ret |-> TRUE, reason |-> "dry", disk |-> d, ledger |-> h, dirs |-> ds]
    ELSE atomic_write_real(d, h, ds, path, contents)

----------------------------------------------------------------------------
(* The writer, one call at a time *)

\* a target with its file, a possible leftover temporary file and the other file
InitDisk(t, f, tmp) ==
    [p \in PathsOf(t) |->
        IF p = t THEN f
        ELSE IF p = Other THEN File(OtherText)
        ELSE tmp]

InitLedger(t, h) ==
    [p \in {t, Other} |-> IF p = t THEN h ELSE sha256_text(OtherText)]

\* the files a target may start with: the working directory for the empty
\* name, nothing under a missing directory, any text or nothing for the
\* regular name, and one text or nothing for the other names (the guard on
\* the name reads no file)
InitFiles(t) ==
    IF t.name = EmptyName THEN {Dir}
    ELSE IF t.dir = MissingDir THEN {NoFile}
    ELSE IF t.name = RegularName THEN {NoFile} \cup {File(c) : c \in Contents}
    ELSE {NoFile, File(<<"a">>)}

\* the ledger entries a target may start with: none, or the hash of a text
\* written earlier, which the file may or may not still hold
InitHashes == {NoHash, sha256_text(<<LF>>), sha256_text(<<"a", LF>>)}

InitWriter ==
    /\ AGGRESSIVE \in BOOLEAN
    /\ target \in Targets
    /\ dirs = {ExistingDir}
    /\ \E f \in InitFiles(target) : disk = InitDisk(target, f, NoFile)
    /\ \E h \in InitHashes : ledger = InitLedger(target, h)
    /\ last = NoCall
    /\ pc = "idle"
    /\ cur = NoCur

Init ==
    /\ InitWriter
    /\ arg = NoArg
    /\ res = NoRes

\* the record of the call that returns ret for reason, begun with ledger h
Completed(c, dry, ret, reason, h) ==
    LET rep == last.called /\ last.contents = c /\ last.dry = dry
    IN  [called |-> TRUE, seq |-> 1 - last.seq,
         contents |-> IF dry THEN <<>> ELSE c, dry |-> dry,
         ret |-> ret, reason |-> reason,
         cached |-> (h = sha256_text(normalize_text(c))),
         repeats |-> rep, prev_ret |-> (rep /\ last.ret)]

\* atomic_write(target, c, dry=dry), from call to return
Write(c, dry) ==
    /\ pc = "idle"
    /\ LET r == atomic_write(disk, ledger, dirs, target, c, dry)
       IN  /\ disk' = r.disk
           /\ ledger' = r.ledger
           /\ dirs' = r.dirs
           /\ last' = Completed(c, dry, r.ret, r.reason, ledger[target])
    /\ UNCHANGED <<AGGRESSIVE, target, pc, cur, arg, res>>

WriteReal == \E c \in Contents : Write(c, FALSE)
WriteDry == \E c \in Contents : Write(c, TRUE)

Next == WriteReal \/ WriteDry

Spec == Init /\ [][Next]_vars

----------------------------------------------------------------------------
(* The writer, step by step, with a crash possible between any two steps *)

InitSteps ==
    /\ AGGRESSIVE \in BOOLEAN
    /\ target = [dir |-> ExistingDir, name |-> RegularName]
    /\ dirs = {ExistingDir}
    /\ \E f \in InitFiles(target), tmp \in {NoFile, File(<<"a">>)} :
           disk = InitDisk(target, f, tmp)
    /\ \E h \in InitHashes : ledger = InitLedger(target, h)
    /\ last = NoCall
    /\ pc = "idle"
    /\ cur = NoCur
    /\ arg = NoArg
    /\ res = NoRes

\* atomic_write(target, c) is entered with dry off; its guards and
\* comparisons run, with hashes = load_written_hashes()
Call(c) ==
    /\ pc = "idle"
    /\ LET how == outcome(disk, ledger, dirs, target, c)
           new_hash == sha256_text(normalize_text(c))
       IN  /\ pc' = IF how = "wrote" THEN "tmp_open"
                    ELSE IF how = "noop" /\ ledger[target] # new_hash THEN "repair"
                    ELSE "return"
           /\ cur' = [contents |-> c, new_norm |-> normalize_text(c),
                      old |-> disk[target], old_ledger |-> ledger[target],
                      hashes |-> ledger, ret |-> FALSE, reason |-> how]
    /\ UNCHANGED <<AGGRESSIVE, target, dirs, disk, ledger, last, arg, res>>

CallAny == \E c \in Contents : Call(c)

\* tmp.write_text opens the temporary file, truncating a leftover
TmpOpen ==
    /\ pc = "tmp_open"
    /\ disk' = [disk EXCEPT ![with_suffix_tmp(target)] = File(<<>>)]
    /\ pc' = "tmp_write"
    /\ UNCHANGED <<AGGRESSIVE, target, dirs, ledger, last, cur, arg, res>>

\* tmp.write_text writes the next character
TmpWrite ==
    /\ pc = "tmp_write"
    /\ LET tmp == with_suffix_tmp(target)
           n == Len(disk[tmp].text)
       IN  /\ n < Len(cur.new_norm)
           /\ disk' = [disk EXCEPT ![tmp] = File(SubSeq(cur.new_norm, 1, n + 1))]
    /\ UNCHANGED <<AGGRESSIVE, target, dirs, ledger, last, pc, cur, arg, res>>

\* tmp.replace(path): the rename
Replace ==
    /\ pc = "tmp_write"
    /\ LET tmp == with_suffix_tmp(target)
       IN  /\ disk[tmp] = File(cur.new_norm)
           /\ disk' = [disk EXCEPT ![tmp] = NoFile, ![target] = disk[tmp]]
    /\ pc' = "persist"
    /\ UNCHANGED <<AGGRESSIVE, target, dirs, ledger, last, cur, arg, res>>

\* save_written_hashes opens written_hashes.json, which truncates it
SaveOpen ==
    /\ pc \in {"persist", "repair"}
    /\ ledger' = EmptyLedger(target)
    /\ pc' = IF pc = "persist" THEN "persist_write" ELSE "repair_write"
    /\ UNCHANGED <<AGGRESSIVE, target, dirs, disk, last, cur, arg, res>>

\* save_written_hashes writes the loaded hashes with the entry of the target
SaveWrite ==
    /\ pc \in {"persist_write", "repair_write"}
    /\ ledger' = set_hash(cur.hashes, target, sha256_text(cur.new_norm))
    /\ cur' = [cur EXCEPT !.ret = (pc = "persist_write")]
    /\ pc' = "return"
    /\ UNCHANGED <<AGGRESSIVE, target, dirs, disk, last, arg, res>>

Return ==
    /\ pc = "return"
    /\ last' = Completed(cur.contents, FALSE, cur.ret, cur.reason, cur.old_ledger)
    /\ pc' = "idle"
    /\ cur' = NoCur
    /\ UNCHANGED <<AGGRESSIVE, target, dirs, disk, ledger, arg, res>>

\* the process dies inside the call; nothing more happens
Crash ==
    /\ pc \notin {"idle", "crashed"}
    /\ pc' = "crashed"
    /\ UNCHANGED <<AGGRESSIVE, target, dirs, disk, ledger, last, cur, arg, res>>

NextSteps ==
    \/ CallAny
    \/ TmpOpen
    \/ TmpWrite
    \/ Replace
    \/ SaveOpen
    \/ SaveWrite
    \/ Return
    \/ Crash

SpecSteps == InitSteps /\ [][NextSteps]_vars

----------------------------------------------------------------------------
(* normalize_text, applied once and then again to its own result *)

\* the writer at rest while a pure function is under check
WriterAtRest ==
    /\ AGGRESSIVE = TRUE
    /\ target = [dir |-> ExistingDir, name |-> RegularName]
    /\ dirs = {ExistingDir}
    /\ disk = InitDisk(target, NoFile, NoFile)
    /\ ledger = EmptyLedger(target)
    /\ last = NoCall
    /\ pc = "pure"
    /\ cur = NoCur

InitNorm ==
    /\ WriterAtRest
    /\ arg \in Strs(Chars, MaxStrLen)
    /\ res = NoRes

Normalize ==
    /\ pc = "pure"
    /\ Len(res) = 0
    /\ res' = <<normalize_text(arg)>>
    /\ UNCHANGED <<AGGRESSIVE, target, dirs, disk, ledger, last, pc, cur, arg>>

Renormalize ==
    /\ pc = "pure"
    /\ Len(res) = 1
    /\ res' = res \o <<normalize_text(res[1])>>
    /\ UNCHANGED <<AGGRESSIVE, target, dirs, disk, ledger, last, pc, cur, arg>>

NextNorm == Normalize \/ Renormalize

SpecNorm == InitNorm /\ [][NextNorm]_vars

----------------------------------------------------------------------------
(* Issue signatures: token_overlap and same_issue_sig of ai_fix.py *)

\* the characters of signatures: two letters, a capital, a separator
SigChars == {"a", "b", "A", SP}
WordChars == {"a", "b", "A"}
MaxSigLen == 3

\* str.lower()
lower(s) == [i \in 1..Len(s) |-> IF s[i] = "A" THEN "a" ELSE s[i]]

\* set(re.findall(r"\w+", s)): the maximal runs of word characters
findall_words(s) ==
    { SubSeq(s, i, j) : <<i, j>> \in
        { ij \in (1..Len(s)) \X (1..Len(s)) :
            /\ ij[1] <= ij[2]
            /\ \A k \in ij[1]..ij[2] : s[k] \in WordChars
            /\ (ij[1] = 1 \/ s[ij[1] - 1] \notin WordChars)
            /\ (ij[2] = Len(s) \/ s[ij[2] + 1] \notin WordChars) } }

Min(m, n) == IF m <= n THEN m ELSE n

\* the overlap with only the first signature lowered
token_overlap_lowers_first(a, b) ==
    LET ta == findall_words(lower(a))
        tb == findall_words(b)
    IN  IF a = <<>> \/ b = <<>> THEN [num |-> 0, den |-> 1]
        ELSE IF ta = {} \/ tb = {} THEN [num |-> 0, den |-> 1]
        ELSE [num |-> Cardinality(ta \cap tb),
              den |-> Min(Cardinality(ta), Cardinality(tb))]

\* the overlap as a fraction num/den; 0.0 is 0/1
token_overlap(a, b) ==
    LET ta == findall_words(lower(a))
        tb == findall_words(lower(b))
    IN  IF a = <<>> \/ b = <<>> THEN [num |-> 0, den |-> 1]
        ELSE IF ta = {} \/ tb = {} THEN [num |-> 0, den |-> 1]
        ELSE [num |-> Cardinality(ta \cap tb),
              den |-> Min(Cardinality(ta), Cardinality(tb))]

\* a in b
contains(b, a) ==
    \E i \in 1..(Len(b) + 1) :
        i + Len(a) - 1 <= Len(b) /\ SubSeq(b, i, i + Len(a) - 1) = a

\* the match with the containment tried in one direction only
same_issue_sig_one_way(a, b) ==
    IF a = <<>> \/ b = <<>> THEN FALSE
    ELSE IF contains(b, a) THEN TRUE
    ELSE LET r == token_overlap(a, b) IN 2 * r.num >= r.den

same_issue_sig(a, b) ==
    IF a = <<>> \/ b = <<>> THEN FALSE
    ELSE IF contains(b, a) \/ contains(a, b) THEN TRUE
    ELSE LET r == token_overlap(a, b) IN 2 * r.num >= r.den    \* num/den >= 0.5

InitSig ==
    /\ WriterAtRest
    /\ arg \in Strs(SigChars, MaxSigLen) \X Strs(SigChars, MaxSigLen)
    /\ res = NoRes

\* same_issue_sig(a, b)
MatchAB ==
    /\ pc = "pure"
    /\ Len(res) = 0
    /\ res' = <<same_issue_sig(arg[1], arg[2])>>
    /\ UNCHANGED <<AGGRESSIVE, target, dirs, disk, ledger, last, pc, cur, arg>>

\* same_issue_sig(b, a)
MatchBA ==
    /\ pc = "pure"
    /\ Len(res) = 1
    /\ res' = res \o <<same_issue_sig(arg[2], arg[1])>>
    /\ UNCHANGED <<AGGRESSIVE, target, dirs, disk, ledger, last, pc, cur, arg>>

NextSig == MatchAB \/ MatchBA

SpecSig == InitSig /\ [][NextSig]_vars

----------------------------------------------------------------------------
(* ai_fix.py: the issue memory, the build log and the files of a run *)

\* sha256(s) of ai_fix.py
sha256(s) == <<"sha256">> \o s

\* "// DO NOT MODIFY BY AI", written as one character of a file's text
DoNotModify == <<"M">>

\* the .swift files a build log names
FixFiles == {"f.swift"}

\* what a file holds, and what the model backend proposes for it
FixTexts == {<<"a">>, <<"b">>}
FileTexts == FixTexts \cup {DoNotModify}

\* the signatures detect_issues_from_log finds: never empty, never repeated
LogSigs == {<<"a">>, <<"b">>, <<"a", SP, "b">>}
MaxIssues == 2

\* the sequences over S without repetition, up to n long
Distinct(S, n) ==
    { s \in UNION {[1..k -> S] : k \in 0..n} :
        \A i, j \in 1..Len(s) : i # j => s[i] # s[j] }

\* an issue as detect_issues_from_log records it
Issue(sig) == [id |-> sha256(sig), signature |-> sig]

\* current_issues, for every log of the model
Logs == { [i \in 1..Len(s) |-> Issue(s[i])] : s \in Distinct(LogSigs, MaxIssues) }

\* unique_files, for every log of the model
LogFiles == {<<>>, <<"f.swift">>}

\* stored["files"] with no file in it
NoFiles == [f \in FixFiles |-> <<>>]

\* issues_db.setdefault(issue["id"], {...}) on a memory kept in insertion order
setdefault(db, issue) ==
    IF \E i \in 1..Len(db) : db[i].id = issue.id THEN db
    ELSE Append(db, [id |-> issue.id, signature |-> issue.signature,
                     files |-> NoFiles, reuseCount |-> 0])

\* issues_db[id]["files"][file_path] = fixed
set_file(db, id, file_path, fixed) ==
    [i \in 1..Len(db) |->
        IF db[i].id = id
        THEN [db[i] EXCEPT !.files = [@ EXCEPT ![file_path] = fixed]]
        ELSE db[i]]

\* the stored resolutions kept whatever the log says
auto_forget_nothing(db, issues) == db

\* the fuzzy map from stored to current issues, and the deletion of every
\* stored resolution that no current issue matches
auto_forget(db, issues) ==
    SelectSeq(db, LAMBDA s :
        \E i \in 1..Len(issues) : same_issue_sig(s.signature, issues[i].signature))

\* del issues_db[MARK_RESOLVED_ID], when the id is stored
mark_resolved(db, id) == SelectSeq(db, LAMBDA s : s.id # id)

\* the first stored resolution whose signature matches the issue's, 0 for none
stored_id(db, issue) ==
    IF \E i \in 1..Len(db) : same_issue_sig(db[i].signature, issue.signature)
    THEN CHOOSE i \in 1..Len(db) :
            /\ same_issue_sig(db[i].signature, issue.signature)
            /\ \A j \in 1..(i - 1) : ~same_issue_sig(db[j].signature, issue.signature)
    ELSE 0

\* the loop that saves a fix under every current issue it is taken to answer
save_fix(db, issues, file_path, fixed, content, in_excerpt) ==
    LET F[n \in 0..Len(issues)] ==
            IF n = 0 THEN db
            ELSE IF \/ same_issue_sig(issues[n].signature, fixed)
                    \/ same_issue_sig(issues[n].signature, content)
                    \/ in_excerpt
                 THEN set_file(setdefault(F[n - 1], issues[n]),
                               issues[n].id, file_path, fixed)
                 ELSE F[n - 1]
    IN  F[Len(issues)]

\* cache.json: realpath -> lastHash, NoHash when absent
NoCache == [f \in FixFiles |-> NoHash]

\* the disk of ai_fix: the .swift files, the two files of ~/.ai-fix-issues
\* and the files that have a backup
ISSUES_DB == "issues.json"
CACHE_PATH == "cache.json"
Backups == "bak"

\* the bounds on --max-ai-attempts and --max-issue-reuse
MaxAttempts == 3
MaxReuse == 1

\* what is remembered of the runs so far when runs are repeated with one
\* generator: the content the generator returns and the times it was applied
NoHistory == [gen |-> <<>>, applied |-> 0]

\* the command line and the log of a run: arg while ai_fix runs
RunArgs(mode, dry, id, issues, files, in_excerpt) ==
    [mode |-> mode, DRY_RUN |-> dry, MARK_RESOLVED_ID |-> id,
     current_issues |-> issues, unique_files |-> files,
     in_excerpt |-> in_excerpt,
     MAX_AI_ATTEMPTS |-> arg.MAX_AI_ATTEMPTS,
     MAX_ISSUE_REUSE |-> arg.MAX_ISSUE_REUSE,
     history |-> arg.history]

\* the globals and locals of a run: cur while ai_fix runs
\*   fi, ci       the positions in unique_files and in current_issues
\*   loaded       the issue memory as the run found it
\*   persisted    the run has written issues.json
\*   db_before    issues_db when the file's turn began
\*   backed_up    a backup of the file was made in its turn
\*   generated    ai_analyze_then_fix was called in the file's turn
\*   rewrites     the rewrite requests made for the file
\*   given        the plan text of the latest rewrite request
\*   critiques    the critiques of the self-checks that failed, in order
\*   oks          the self-checks that returned ok
NoRun ==
    [loaded |-> <<>>, issues_db |-> <<>>, cache |-> NoCache, changed_files |-> {},
     fi |-> 0, file_path |-> "", content |-> <<>>, ci |-> 0,
     applied_stored |-> FALSE, attempt |-> 0, plan_text |-> <<>>,
     fixed_candidate |-> <<>>, persisted |-> FALSE, db_before |-> <<>>,
     backed_up |-> FALSE, generated |-> FALSE, rewrites |-> 0,
     given |-> <<>>, critiques |-> <<>>, oks |-> 0]

FixDisk(files, db, cache, backups) ==
    [p \in FixFiles \cup {ISSUES_DB, CACHE_PATH, Backups} |->
        IF p \in FixFiles THEN files[p]
        ELSE IF p = ISSUES_DB THEN db
        ELSE IF p = CACHE_PATH THEN cache
        ELSE backups]

\* the variables of the writer, which ai_fix does not use
WriterUnused ==
    /\ AGGRESSIVE = TRUE
    /\ target = [dir |-> ExistingDir, name |-> RegularName]
    /\ dirs = {ExistingDir}
    /\ ledger = EmptyLedger(target)
    /\ last = NoCall

\* before the first run: no issue memory, no cache, every file as checked out
InitFix ==
    /\ WriterUnused
    /\ disk = FixDisk([f \in FixFiles |-> File(<<"a">>)], <<>>, NoCache, {})
    /\ \E m \in {MaxAttempts}, n \in 0..MaxReuse :
          arg = [mode |-> "none", DRY_RUN |-> FALSE, MARK_RESOLVED_ID |-> <<>>,
                 current_issues |-> <<>>, unique_files |-> <<>>,
                 in_excerpt |-> TRUE,
                 MAX_AI_ATTEMPTS |-> m, MAX_ISSUE_REUSE |-> n,
                 history |-> NoHistory]
    /\ cur = NoRun
    /\ pc = "exit"
    /\ res = {}

\* ai_analyze_then_fix returning None
None == <<>>

\* the lines a run prints for the file in turn, each with the issue it names
Line(msg, id) == <<msg, id>>
NoId == <<>>

\* --mark-resolved=ID: delete the stored resolution, save and exit before any
\* issue is detected
MarkResolved(id, issues, files) ==
    /\ pc = "exit"
    /\ arg' = RunArgs("mark_resolved", FALSE, id, issues, files, TRUE)
    /\ LET db == disk[ISSUES_DB]
           found == \E i \in 1..Len(db) : db[i].id = id
       IN  /\ disk' = IF found
                      THEN [disk EXCEPT ![ISSUES_DB] = mark_resolved(db, id)]
                      ELSE disk
           /\ cur' = [NoRun EXCEPT !.loaded = db,
                                   !.issues_db = mark_resolved(db, id),
                                   !.cache = disk[CACHE_PATH],
                                   !.persisted = found]
           /\ res' = {Line(IF found THEN "marked_resolved" ELSE "no_issue", id)}
    /\ pc' = "done"
    /\ UNCHANGED <<AGGRESSIVE, target, dirs, ledger, last>>

\* a run: load the memory and the cache, detect the issues of the log and
\* forget what matches none of them
Begin(dry, issues, files, in_excerpt) ==
    /\ pc = "exit"
    /\ arg' = RunArgs("fix", dry, <<>>, issues, files, in_excerpt)
    /\ cur' = [NoRun EXCEPT !.loaded = disk[ISSUES_DB],
                            !.issues_db = auto_forget(disk[ISSUES_DB], issues),
                            !.cache = disk[CACHE_PATH],
                            !.fi = 1]
    /\ res' = {}
    /\ pc' = "file"
    /\ UNCHANGED <<AGGRESSIVE, target, dirs, disk, ledger, last>>

\* --stubs-only: the same, then save the memory and exit
StubsOnly(issues, files) ==
    /\ pc = "exit"
    /\ arg' = RunArgs("stubs_only", FALSE, <<>>, issues, files, TRUE)
    /\ LET db == auto_forget(disk[ISSUES_DB], issues)
       IN  /\ disk' = [disk EXCEPT ![ISSUES_DB] = db]
           /\ cur' = [NoRun EXCEPT !.loaded = disk[ISSUES_DB],
                                   !.issues_db = db,
                                   !.cache = disk[CACHE_PATH],
                                   !.persisted = TRUE]
    /\ res' = {}
    /\ pc' = "done"
    /\ UNCHANGED <<AGGRESSIVE, target, dirs, ledger, last>>

\* the end of a file's turn: on to the next of unique_files
next_file(c) == [c EXCEPT !.fi = @ + 1]

\* for file_path in unique_files: read the file, skip it when it is missing
\* or carries the marker; after the last file go on to save
NextFile ==
    /\ pc = "file"
    /\ IF cur.fi > Len(arg.unique_files)
       THEN /\ pc' = "persist"
            /\ UNCHANGED <<cur, res>>
       ELSE LET file_path == arg.unique_files[cur.fi]
                turn == [cur EXCEPT !.file_path = file_path,
                                    !.content = disk[file_path].text,
                                    !.ci = 1, !.applied_stored = FALSE,
                                    !.attempt = 0, !.plan_text = <<>>,
                                    !.fixed_candidate = <<>>,
                                    !.db_before = cur.issues_db,
                                    !.backed_up = FALSE, !.generated = FALSE,
                                    !.rewrites = 0, !.given = <<>>,
                                    !.critiques = <<>>, !.oks = 0]
            IN  IF ~exists(disk, file_path)
                THEN /\ cur' = next_file(turn)
                     /\ res' = {Line("file_missing", NoId)}
                     /\ pc' = "file"
                ELSE IF contains(disk[file_path].text, DoNotModify)
                THEN /\ cur' = next_file(turn)
                     /\ res' = {Line("skip_marker", NoId)}
                     /\ pc' = "file"
                ELSE /\ cur' = turn
                     /\ res' = {}
                     /\ pc' = "reuse"
    /\ UNCHANGED <<AGGRESSIVE, target, dirs, disk, ledger, last, arg>>

\* a reuse count one past the limit still passes
reuse_limit_off_by_one(stored, max) == stored.reuseCount > max

\* stored.get("reuseCount", 0) >= MAX_ISSUE_REUSE
reuse_limit_reached(stored, max) == stored.reuseCount >= max

\* what the reuse loop does with one current issue
reuse_outcome(db, issue, file_path, content, max, dry) ==
    LET sid == stored_id(db, issue)
    IN  IF sid = 0 THEN "no_match"
        ELSE IF db[sid].files[file_path] = <<>> THEN "no_file"
        ELSE IF db[sid].files[file_path] = content THEN "present"
        ELSE IF reuse_limit_reached(db[sid], max) THEN "limit"
        ELSE IF dry THEN "dry"
        ELSE "apply"

\* a resolution at its limit ends the loop, and nothing counts as applied
reuse_next_gives_up(what) ==
    IF what \in {"present", "dry", "apply"} THEN "applied"
    ELSE IF what = "limit" THEN "break"
    ELSE "continue"

\* how the loop goes on: "applied" sets applied_stored and breaks
reuse_next(what) ==
    IF what \in {"present", "dry", "apply"} THEN "applied" ELSE "continue"

reuse_line(what) ==
    CASE what = "present" -> "already_present"
      [] what = "limit" -> "reuse_limit_manual_review"
      [] what = "dry" -> "would_reapply"
      [] what = "apply" -> "reapplied"
      [] OTHER -> "none"

\* shutil.copyfile(file_path, backup)
backup(d, file_path) == [d EXCEPT ![Backups] = @ \cup {file_path}]

\* one turn of "for cur in current_issues", or the end of that loop
ReuseStep ==
    /\ pc = "reuse"
    /\ IF cur.ci > Len(arg.current_issues)
       THEN /\ pc' = "analyze"
            /\ UNCHANGED <<cur, res, disk>>
       ELSE LET issue == arg.current_issues[cur.ci]
                what == reuse_outcome(cur.issues_db, issue, cur.file_path,
                                         cur.content, arg.MAX_ISSUE_REUSE,
                                         arg.DRY_RUN)
                sid == stored_id(cur.issues_db, issue)
                step == reuse_next(what)
                said == IF reuse_line(what) = "none" THEN res
                        ELSE res \cup {Line(reuse_line(what),
                                            cur.issues_db[sid].id)}
            IN  /\ res' = said
                /\ IF what = "apply"
                   THEN /\ disk' = [backup(disk, cur.file_path)
                                       EXCEPT ![cur.file_path] =
                                           File(cur.issues_db[sid].files[cur.file_path])]
                        /\ cur' = next_file(
                              [cur EXCEPT !.issues_db[sid].reuseCount = @ + 1,
                                          !.changed_files = @ \cup {cur.file_path},
                                          !.backed_up = TRUE,
                                          !.applied_stored = TRUE])
                        /\ pc' = "file"
                   ELSE /\ disk' = disk
                        /\ IF step = "applied"
                           THEN /\ cur' = next_file([cur EXCEPT !.applied_stored = TRUE])
                                /\ pc' = "file"
                           ELSE IF step = "break"
                           THEN /\ cur' = cur
                                /\ pc' = "analyze"
                           ELSE /\ cur' = [cur EXCEPT !.ci = @ + 1]
                                /\ pc' = "reuse"
    /\ UNCHANGED <<AGGRESSIVE, target, dirs, ledger, last, arg>>

\* ai_analyze_then_fix returns None: the per-file flow reports it and goes on
no_verified_fix(c) == next_file([c EXCEPT !.fixed_candidate = None])

\* the analysis request: a plan, or nothing to plan with
Analyze(has_plan) ==
    /\ pc = "analyze"
    /\ IF has_plan
       THEN /\ cur' = [cur EXCEPT !.generated = TRUE, !.plan_text = <<"plan">>,
                                  !.attempt = 1]
            /\ res' = res
            /\ pc' = "rewrite"
       ELSE /\ cur' = no_verified_fix([cur EXCEPT !.generated = TRUE])
            /\ res' = res \cup {Line("no_verified_fix", NoId)}
            /\ pc' = "file"
    /\ UNCHANGED <<AGGRESSIVE, target, dirs, disk, ledger, last, arg>>

\* one attempt more than asked for
attempts_left_one_more(attempt, max) == attempt <= max + 1

\* for attempt in range(1, MAX_AI_ATTEMPTS + 1)
attempts_left(attempt, max) == attempt <= max

\* the rewrite request of an attempt; an empty answer uses the attempt up
Rewrite(fix_out) ==
    /\ pc = "rewrite"
    /\ attempts_left(cur.attempt, arg.MAX_AI_ATTEMPTS)
    /\ LET asked == [cur EXCEPT !.rewrites = @ + 1, !.given = cur.plan_text]
       IN  IF fix_out = <<>>
           THEN /\ cur' = [asked EXCEPT !.attempt = @ + 1]
                /\ pc' = "rewrite"
           ELSE /\ cur' = [asked EXCEPT !.fixed_candidate = fix_out]
                /\ pc' = "check"
    /\ UNCHANGED <<AGGRESSIVE, target, dirs, disk, ledger, last, arg, res>>

\* all attempts exhausted
Exhausted ==
    /\ pc = "rewrite"
    /\ ~attempts_left(cur.attempt, arg.MAX_AI_ATTEMPTS)
    /\ cur' = no_verified_fix(cur)
    /\ res' = res \cup {Line("no_verified_fix", NoId)}
    /\ pc' = "file"
    /\ UNCHANGED <<AGGRESSIVE, target, dirs, disk, ledger, last, arg>>

\* the answers to the self-check request, by what the code reads in them:
\*   json         extract_json_fragment finds an object in the answer
\*   ok           the truth of its "ok"
\*   explanation  its "explanation"
\*   keyword      the answer holds one of true, ok, resolved, should fix
\*   text         the answer, stripped
Replies ==
    { [json |-> TRUE, ok |-> TRUE, explanation |-> "", keyword |-> TRUE, text |-> "j1"],
      [json |-> TRUE, ok |-> FALSE, explanation |-> "k1", keyword |-> FALSE, text |-> "j2"],
      [json |-> FALSE, ok |-> FALSE, explanation |-> "", keyword |-> TRUE, text |-> "t1"],
      [json |-> FALSE, ok |-> FALSE, explanation |-> "", keyword |-> FALSE, text |-> "k2"],
      [json |-> FALSE, ok |-> FALSE, explanation |-> "", keyword |-> FALSE, text |-> ""] }

\* ok and the critique text read from an answer
self_check(reply) ==
    IF reply.json
    THEN [ok |-> reply.ok,
          critique |-> IF reply.explanation # "" THEN reply.explanation
                       ELSE reply.text]
    ELSE [ok |-> reply.keyword, critique |-> reply.text]

\* the plan text with the latest critique in place of the earlier ones
keep_latest_critique(plan_text, critique) == <<plan_text[1], critique>>

\* plan_text += "\n\n# Critique & notes:\n" + critique
append_critique(plan_text, critique) == Append(plan_text, critique)

\* the self-check of a candidate: return it when ok, else add the critique to
\* the plan and try again
SelfCheck(reply) ==
    /\ pc = "check"
    /\ LET chk == self_check(reply)
       IN  IF chk.ok
           THEN /\ cur' = [cur EXCEPT !.oks = @ + 1]
                /\ pc' = "apply"
           ELSE /\ cur' = [cur EXCEPT
                              !.plan_text = append_critique(@, chk.critique),
                              !.critiques = Append(@, chk.critique),
                              !.attempt = @ + 1]
                /\ pc' = "rewrite"
    /\ UNCHANGED <<AGGRESSIVE, target, dirs, disk, ledger, last, arg, res>>

\* no look at the hash the cache holds for the file
apply_outcome_without_guard(cache, file_path, fixed, content, dry) ==
    IF fixed = content THEN "noop"
    ELSE IF dry THEN "dry"
    ELSE "apply"

\* what becomes of a verified fix
apply_outcome(cache, file_path, fixed, content, dry) ==
    IF cache[file_path] = sha256(fixed) THEN "duplicate"
    ELSE IF fixed = content THEN "noop"
    ELSE IF dry THEN "dry"
    ELSE "apply"

\* the per-file flow after ai_analyze_then_fix returned: the locals, the disk
\* and the line printed
apply_fix(c, d, a, fixed) ==
    LET what == apply_outcome(c.cache, c.file_path, fixed, c.content, a.DRY_RUN)
        cached == [c EXCEPT !.cache[c.file_path] = sha256(fixed)]
        saved == [cached EXCEPT !.issues_db =
                     save_fix(@, a.current_issues, c.file_path, fixed,
                              c.content, a.in_excerpt)]
    IN  IF fixed = None
        THEN [cur |-> no_verified_fix(c), disk |-> d, line |-> "no_verified_fix"]
        ELSE IF what = "duplicate"
        THEN [cur |-> next_file(c), disk |-> d, line |-> what]
        ELSE IF what = "noop"
        THEN [cur |-> next_file(cached), disk |-> d, line |-> what]
        ELSE IF what = "dry"
        THEN [cur |-> next_file(saved), disk |-> d, line |-> what]
        ELSE [cur |-> next_file([saved EXCEPT
                                    !.changed_files = @ \cup {c.file_path},
                                    !.backed_up = TRUE]),
              disk |-> [backup(d, c.file_path) EXCEPT ![c.file_path] = File(fixed)],
              line |-> what]

\* the verified candidate goes back to the per-file flow
Apply ==
    /\ pc = "apply"
    /\ LET r == apply_fix(cur, disk, arg, cur.fixed_candidate)
       IN  /\ cur' = r.cur
           /\ disk' = r.disk
           /\ res' = res \cup {Line(r.line, NoId)}
    /\ pc' = "file"
    /\ UNCHANGED <<AGGRESSIVE, target, dirs, ledger, last, arg>>

\* the whole of "2) No stored -> ask AI" as one step: ai_analyze_then_fix
\* returns fixed, a verified file or None
Generate(fixed) ==
    /\ pc = "analyze"
    /\ LET r == apply_fix([cur EXCEPT !.generated = TRUE,
                                      !.fixed_candidate = fixed],
                          disk, arg, fixed)
       IN  /\ cur' = r.cur
           /\ disk' = r.disk
           /\ res' = res \cup {Line(r.line, NoId)}
    /\ pc' = "file"
    /\ UNCHANGED <<AGGRESSIVE, target, dirs, ledger, last, arg>>

\* Persist DB & cache
Persist ==
    /\ pc = "persist"
    /\ disk' = [disk EXCEPT ![ISSUES_DB] = cur.issues_db,
                            ![CACHE_PATH] = cur.cache]
    /\ cur' = [cur EXCEPT !.persisted = TRUE]
    /\ pc' = "done"
    /\ UNCHANGED <<AGGRESSIVE, target, dirs, ledger, last, arg, res>>

\* sys.exit: the process and its memory are gone, the disk stays
Exit ==
    /\ pc = "done"
    /\ pc' = "exit"
    /\ cur' = NoRun
    /\ arg' = RunArgs("none", FALSE, <<>>, <<>>, <<>>, TRUE)
    /\ res' = {}
    /\ UNCHANGED <<AGGRESSIVE, target, dirs, disk, ledger, last>>

\* between two runs the developer, or a checkout, changes or removes a file
Edit(file_path, f) ==
    /\ pc = "exit"
    /\ disk[file_path] # f
    /\ disk' = [disk EXCEPT ![file_path] = f]
    /\ UNCHANGED <<AGGRESSIVE, target, dirs, ledger, last, pc, cur, arg, res>>

NextFix ==
    \/ \E dry \in BOOLEAN, issues \in Logs, files \in LogFiles, in_excerpt \in BOOLEAN :
          Begin(dry, issues, files, in_excerpt)
    \/ \E issues \in Logs, files \in LogFiles : StubsOnly(issues, files)
    \/ \E sig \in LogSigs, issues \in Logs, files \in LogFiles :
          MarkResolved(sha256(sig), issues, files)
    \/ NextFile
    \/ ReuseStep
    \/ \E fixed \in FixTexts \cup {None} : Generate(fixed)
    \/ Persist
    \/ Exit
    \/ \E file_path \in FixFiles, f \in {File(t) : t \in FileTexts} \cup {NoFile} :
          Edit(file_path, f)

SpecFix == InitFix /\ [][NextFix]_vars

\* a stored resolution of an earlier run, saved for the issue "a"
Earlier ==
    <<[id |-> sha256(<<"a">>), signature |-> <<"a">>,
       files |-> [f \in FixFiles |-> <<"b">>], reuseCount |-> 0]>>

\* one run seen attempt by attempt, begun on a fresh checkout or after a run
\* that saved a resolution which has no reuse left
InitVerify ==
    /\ WriterUnused
    /\ \/ disk = FixDisk([f \in FixFiles |-> File(<<"a">>)], <<>>, NoCache, {})
       \/ \E t \in FixTexts :
             disk = FixDisk([f \in FixFiles |-> File(t)], Earlier,
                            [f \in FixFiles |-> sha256(<<"b">>)], FixFiles)
    /\ \E m \in 0..MaxAttempts :
          arg = [mode |-> "none", DRY_RUN |-> FALSE, MARK_RESOLVED_ID |-> <<>>,
                 current_issues |-> <<>>, unique_files |-> <<>>,
                 in_excerpt |-> TRUE,
                 MAX_AI_ATTEMPTS |-> m, MAX_ISSUE_REUSE |-> 0,
                 history |-> NoHistory]
    /\ cur = NoRun
    /\ pc = "exit"
    /\ res = {}

NextVerify ==
    \/ \E dry \in BOOLEAN, issues \in Logs, files \in LogFiles, in_excerpt \in BOOLEAN :
          Begin(dry, issues, files, in_excerpt)
    \/ NextFile
    \/ ReuseStep
    \/ \E has_plan \in BOOLEAN : Analyze(has_plan)
    \/ \E fix_out \in FixTexts \cup {<<>>} : Rewrite(fix_out)
    \/ Exhausted
    \/ \E reply \in Replies : SelfCheck(reply)
    \/ Apply
    \/ Persist

SpecVerify == InitVerify /\ [][NextVerify]_vars

\* model_chat: what a backend does when its turn comes. Gemini and OpenAI
\* are unavailable (no SDK or no key), raise, or answer, perhaps with an
\* empty text; gh copilot ends with an exit status, stdout and stderr, and
\* run_cmd turns a timeout or a missing gh into a nonzero status
SdkOutcomes == {"unavailable", "raises", "empty", "text"}
ChatEnvs == [gemini : SdkOutcomes, openai : SdkOutcomes,
             rc : {0, 1, 124}, out : {"", "c"}, err : {"", "e"}]

\* use_gemini_backend, use_openai_backend
use_backend(how) == how # "unavailable"

\* what call_gemini_chat and call_openai_chat return when they do not raise
sdk_text(backend, how) ==
    IF how = "text" THEN (IF backend = "gemini" THEN "g" ELSE "o") ELSE ""

call_copilot_cli(rc, out, err) ==
    IF rc = 0 /\ out # "" THEN out
    ELSE IF rc = 0 /\ err # "" THEN err
    ELSE ""

\* Gemini out of the way, OpenAI is passed over
after_passing_over_openai(backend, how) ==
    IF backend = "gemini" /\ how \in {"unavailable", "raises"} THEN "copilot"
    ELSE IF backend = "openai" /\ how \in {"unavailable", "raises"} THEN "copilot"
    ELSE "returned"

\* where model_chat goes after a backend's turn: on to the next one when the
\* backend is not in use or raised, otherwise it returns
after(backend, how) ==
    IF backend = "gemini" /\ how \in {"unavailable", "raises"} THEN "openai"
    ELSE IF backend = "openai" /\ how \in {"unavailable", "raises"} THEN "copilot"
    ELSE "returned"

NoChat == [calls |-> <<>>]

InitChat ==
    /\ WriterUnused
    /\ disk = FixDisk([f \in FixFiles |-> File(<<"a">>)], <<>>, NoCache, {})
    /\ arg \in ChatEnvs
    /\ cur = NoChat
    /\ pc = "gemini"
    /\ res = <<>>

\* if use_gemini_backend(): try: return call_gemini_chat(...); likewise for
\* OpenAI
TrySdk(backend) ==
    /\ pc = backend
    /\ cur' = IF use_backend(arg[backend])
              THEN [cur EXCEPT !.calls = Append(@, backend)] ELSE cur
    /\ pc' = after(backend, arg[backend])
    /\ res' = IF after(backend, arg[backend]) = "returned"
              THEN <<sdk_text(backend, arg[backend])>> ELSE res
    /\ UNCHANGED <<AGGRESSIVE, target, dirs, disk, ledger, last, arg>>

\* cp_out = call_copilot_cli(...); return cp_out if there is any, else ""
TryCopilot ==
    /\ pc = "copilot"
    /\ cur' = [cur EXCEPT !.calls = Append(@, "copilot")]
    /\ pc' = after("copilot", "")
    /\ res' = <<call_copilot_cli(arg.rc, arg.out, arg.err)>>
    /\ UNCHANGED <<AGGRESSIVE, target, dirs, disk, ledger, last, arg>>

NextChat ==
    \/ TrySdk("gemini")
    \/ TrySdk("openai")
    \/ TryCopilot

SpecChat == InitChat /\ [][NextChat]_vars

\* runs repeated with a generator that returns the same content, or no
\* verified fix, every time it is asked
InitRepeat ==
    /\ WriterUnused
    /\ disk = FixDisk([f \in FixFiles |-> File(<<"a">>)], <<>>, NoCache, {})
    /\ \E gen \in FixTexts, n \in 0..MaxReuse :
          arg = [mode |-> "none", DRY_RUN |-> FALSE, MARK_RESOLVED_ID |-> <<>>,
                 current_issues |-> <<>>, unique_files |-> <<>>,
                 in_excerpt |-> TRUE,
                 MAX_AI_ATTEMPTS |-> MaxAttempts, MAX_ISSUE_REUSE |-> n,
                 history |-> [gen |-> gen, applied |-> 0]]
    /\ cur = NoRun
    /\ pc = "exit"
    /\ res = {}

\* sys.exit, with the run's "Applied AI fix" counted in the history
ExitRepeat ==
    /\ pc = "done"
    /\ pc' = "exit"
    /\ cur' = NoRun
    /\ arg' = [RunArgs("none", FALSE, <<>>, <<>>, <<>>, TRUE) EXCEPT
                  !.history.applied =
                      IF Line("apply", NoId) \in res /\ @ < 2 THEN @ + 1 ELSE @]
    /\ res' = {}
    /\ UNCHANGED <<AGGRESSIVE, target, dirs, disk, ledger, last>>

NextRepeat ==
    \/ \E dry \in BOOLEAN, issues \in Logs, files \in LogFiles, in_excerpt \in BOOLEAN :
          Begin(dry, issues, files, in_excerpt)
    \/ \E sig \in LogSigs, issues \in Logs, files \in LogFiles :
          MarkResolved(sha256(sig), issues, files)
    \/ NextFile
    \/ ReuseStep
    \/ \E fixed \in {arg.history.gen, None} : Generate(fixed)
    \/ Persist
    \/ ExitRepeat
    \/ \E file_path \in FixFiles, f \in {File(t) : t \in FileTexts} \cup {NoFile} :
          Edit(file_path, f)

SpecRepeat == InitRepeat /\ [][NextRepeat]_vars

----------------------------------------------------------------------------
(* improve_features_v2.py: the think passes of main and the stable proposals *)

\* the paths a feature's proposals name, and the contents proposed for them
ConvPaths == {"view", "viewmodel"}
ConvContents == {"A", "B"}
MaxThink == 4

\* a proposal: Dict[str, str], path -> contents
Proposals == UNION {[S -> ConvContents] : S \in SUBSET ConvPaths}

\* the first pass kept as it is
stable_first_pass(proposals_passes) ==
    IF proposals_passes = <<>> THEN [p \in {} |-> "A"]
    ELSE proposals_passes[1]

\* the files that are stable: those of the first pass that every later pass
\* proposes with the same contents
stable(proposals_passes) ==
    IF proposals_passes = <<>> THEN [p \in {} |-> "A"]
    ELSE LET first == proposals_passes[1]
             same == {path \in DOMAIN first :
                         \A k \in 2..Len(proposals_passes) :
                             /\ path \in DOMAIN proposals_passes[k]
                             /\ proposals_passes[k][path] = first[path]}
         IN  [path \in same |-> first[path]]

\* the stable proposals of any passes a generator may return
InitConv ==
    /\ WriterAtRest
    /\ arg \in UNION {[1..k -> Proposals] : k \in 0..MaxThink}
    /\ res = NoRes

\* proposals = stable, as handed to process_proposals
Converge ==
    /\ pc = "pure"
    /\ Len(res) = 0
    /\ res' = <<stable(arg)>>
    /\ UNCHANGED <<AGGRESSIVE, target, dirs, disk, ledger, last, pc, cur, arg>>

NextConv == Converge

SpecConv == InitConv /\ [][NextConv]_vars

\* the templates of the generation logic, one per missing part of the feature
template(path) == IF path = "view" THEN "A" ELSE "B"

\* ai_propose_changes: with prev the same files again, without it a template
\* for every part the feature's state lacks; prev is <<>> for None
ai_propose_changes(state, prev) ==
    IF prev # <<>> THEN prev[1]
    ELSE [path \in ConvPaths \ state |-> template(path)]

\* one pass more than --think asks for
passes_left_one_more(pass_no, think) == pass_no <= think

\* for pass_no in range(args.think)
passes_left(pass_no, think) == pass_no < think

\* the locals of main for the feature in turn
\*   calls   the prev handed to ai_propose_changes, call by call
Thinking(fi) ==
    [fi |-> fi, pass_no |-> 0, prev |-> <<>>, proposals_passes |-> <<>>,
     calls |-> <<>>]

\* main with --think passes and the features to process, each by its state
InitThink ==
    /\ WriterUnused
    /\ disk = InitDisk(target, NoFile, NoFile)
    /\ \E think \in 0..MaxThink,
          to_process \in UNION {[1..k -> SUBSET ConvPaths] : k \in 1..2} :
          arg = [think |-> think, to_process |-> to_process]
    /\ cur = Thinking(1)
    /\ pc = "think"
    /\ res = NoRes

\* one pass of the think loop
Pass ==
    /\ pc = "think"
    /\ passes_left(cur.pass_no, arg.think)
    /\ LET step == ai_propose_changes(arg.to_process[cur.fi], cur.prev)
       IN  cur' = [cur EXCEPT !.calls = Append(@, cur.prev),
                              !.proposals_passes = Append(@, step),
                              !.prev = <<step>>,
                              !.pass_no = @ + 1]
    /\ UNCHANGED <<AGGRESSIVE, target, dirs, disk, ledger, last, pc, arg, res>>

\* after the last pass: keep the stable files
Stable ==
    /\ pc = "think"
    /\ ~passes_left(cur.pass_no, arg.think)
    /\ res' = <<stable(cur.proposals_passes)>>
    /\ pc' = "proposals"
    /\ UNCHANGED <<AGGRESSIVE, target, dirs, disk, ledger, last, cur, arg>>

\* for feat in to_process: the next feature, if any
NextFeature ==
    /\ pc = "proposals"
    /\ cur.fi < Len(arg.to_process)
    /\ cur' = Thinking(cur.fi + 1)
    /\ res' = NoRes
    /\ pc' = "think"
    /\ UNCHANGED <<AGGRESSIVE, target, dirs, disk, ledger, last, arg>>

NextThink == Pass \/ Stable \/ NextFeature

SpecThink == InitThink /\ [][NextThink]_vars

----------------------------------------------------------------------------
(* improve_features_v2.py: the processed files of main, run after run *)

\* the Swift files list_swift_files finds, in sorted order, with what the
\* priority lists ask of them: a placeholder, the line count, the directory
Stub == "ANCHOR/Stub.swift"
Small == "ANCHOR/ANCHOR/Small.swift"
Medium == "ANCHOR/ANCHOR/Medium.swift"
Large == "ANCHOR/Large.swift"
all_swifts == <<Large, Medium, Small, Stub>>
is_placeholder_file(p) == p = Stub
file_length(p) ==
    IF p = Stub THEN 20 ELSE IF p = Small THEN 80
    ELSE IF p = Medium THEN 150 ELSE 250
in_nested_anchor(p) == p \in {Small, Medium}

Elems(seq) == {seq[i] : i \in 1..Len(seq)}

\* processed_files.json; a file that is missing or unreadable loads as set()
STATE_FILE == "processed_files.json"

\* nothing of the state file is taken over
load_state_forgets(d) == {}

load_state(d) == d[STATE_FILE]

save_state(d, processed) == [d EXCEPT ![STATE_FILE] = processed]

\* add_list: append what is not selected yet
add_list(selected, lst) ==
    selected \o SelectSeq(lst, LAMBDA p : p \notin Elems(selected))

\* collect_prioritized_files: placeholders, files under 100 lines, files in
\* ANCHOR/ANCHOR, files under 200 lines, none of them processed
collect_prioritized_files(processed) ==
    LET placeholders == SelectSeq(all_swifts, LAMBDA p :
            is_placeholder_file(p) /\ p \notin processed)
        lt100 == SelectSeq(all_swifts, LAMBDA p :
            file_length(p) < 100 /\ p \notin processed)
        in_anchor == SelectSeq(all_swifts, LAMBDA p :
            in_nested_anchor(p) /\ p \notin processed)
        lt200 == SelectSeq(all_swifts, LAMBDA p :
            file_length(p) < 200 /\ p \notin processed)
    IN  add_list(add_list(add_list(add_list(<<>>, placeholders), lt100),
                          in_anchor), lt200)

\* prioritized[:max_count] when max_count is given
MaxCount == 2
first(prioritized, max_count) ==
    IF max_count > 0
    THEN SubSeq(prioritized, 1, Min(max_count, Len(prioritized)))
    ELSE prioritized

\* the locals of main, with the state file as the run found it (loaded) and
\* the calls of process_file in order
NoMain == [loaded |-> {}, processed |-> {}, prioritized |-> <<>>, i |-> 0,
           calls |-> <<>>]

InitProcessed ==
    /\ WriterUnused
    /\ disk = [p \in {STATE_FILE} |-> {}]
    /\ arg = [force |-> FALSE, dry |-> FALSE, max_count |-> 0]
    /\ cur = NoMain
    /\ pc = "exit"
    /\ res = {}

\* main up to the loop: load the state, forget it under --force, collect
Main(force, dry, max_count) ==
    /\ pc = "exit"
    /\ arg' = [force |-> force, dry |-> dry, max_count |-> max_count]
    /\ LET loaded == load_state(disk)
           processed == IF force THEN {} ELSE loaded
           prioritized == first(collect_prioritized_files(processed), max_count)
       IN  /\ cur' = [NoMain EXCEPT !.loaded = disk[STATE_FILE],
                                    !.processed = processed,
                                    !.prioritized = prioritized, !.i = 1]
           /\ pc' = IF prioritized = <<>> THEN "done" ELSE "files"
    /\ res' = {}
    /\ UNCHANGED <<AGGRESSIVE, target, dirs, disk, ledger, last>>

\* for p in prioritized: skip what is processed, else process_file, add to
\* processed and save_state
ProcessFile ==
    /\ pc = "files"
    /\ IF cur.i > Len(cur.prioritized)
       THEN /\ pc' = "done"
            /\ UNCHANGED <<cur, disk, res>>
       ELSE LET strp == cur.prioritized[cur.i]
            IN  /\ pc' = "files"
                /\ IF strp \in cur.processed
                   THEN /\ cur' = [cur EXCEPT !.i = @ + 1]
                        /\ res' = res \cup {<<"Skipping already processed", strp>>}
                        /\ disk' = disk
                   ELSE /\ cur' = [cur EXCEPT !.i = @ + 1,
                                              !.calls = Append(@, strp),
                                              !.processed = @ \cup {strp}]
                        /\ res' = res
                        /\ disk' = save_state(disk, cur.processed \cup {strp})
    /\ UNCHANGED <<AGGRESSIVE, target, dirs, ledger, last, arg>>

\* return 0
MainReturns ==
    /\ pc = "done"
    /\ pc' = "exit"
    /\ cur' = NoMain
    /\ res' = {}
    /\ UNCHANGED <<AGGRESSIVE, target, dirs, disk, ledger, last, arg>>

\* between two runs the state file is removed, or a checkout brings one in
EditState(processed) ==
    /\ pc = "exit"
    /\ disk[STATE_FILE] # processed
    /\ disk' = save_state(disk, processed)
    /\ UNCHANGED <<AGGRESSIVE, target, dirs, ledger, last, pc, cur, arg, res>>

NextProcessed ==
    \/ \E force \in BOOLEAN, dry \in BOOLEAN, max_count \in 0..MaxCount :
          Main(force, dry, max_count)
    \/ ProcessFile
    \/ MainReturns
    \/ \E processed \in {{}, {Large}} : EditState(processed)

SpecProcessed == InitProcessed /\ [][NextProcessed]_vars

\* the same runs step by step, with the process killed at any point of
\* the loop. The turn of a file: process_file is called
StartFile ==
    /\ pc = "files"
    /\ IF cur.i > Len(cur.prioritized)
       THEN /\ pc' = "done"
            /\ UNCHANGED <<cur, res>>
       ELSE LET strp == cur.prioritized[cur.i]
            IN  IF strp \in cur.processed
                THEN /\ cur' = [cur EXCEPT !.i = @ + 1]
                     /\ res' = res \cup {<<"Skipping already processed", strp>>}
                     /\ pc' = "files"
                ELSE /\ cur' = [cur EXCEPT !.calls = Append(@, strp)]
                     /\ res' = res
                     /\ pc' = "processing"
    /\ UNCHANGED <<AGGRESSIVE, target, dirs, disk, ledger, last, arg>>

\* process_file has returned: processed.add(strp), and save_state opens
\* the state file with write_text, which truncates it; an empty file is not
\* valid JSON and loads as set()
FinishFile ==
    /\ pc = "processing"
    /\ cur' = [cur EXCEPT !.processed = @ \cup {cur.prioritized[cur.i]}]
    /\ disk' = save_state(disk, {})
    /\ pc' = "saving"
    /\ UNCHANGED <<AGGRESSIVE, target, dirs, ledger, last, arg, res>>

\* write_text writes the sorted list and closes the file; on to the next
SaveStateWrite ==
    /\ pc = "saving"
    /\ disk' = save_state(disk, cur.processed)
    /\ cur' = [cur EXCEPT !.i = @ + 1]
    /\ pc' = "files"
    /\ UNCHANGED <<AGGRESSIVE, target, dirs, ledger, last, arg, res>>

\* the process is killed: its memory is gone, the disk stays as it is
CrashRun ==
    /\ pc \in {"files", "processing", "saving"}
    /\ pc' = "exit"
    /\ cur' = NoMain
    /\ res' = {}
    /\ UNCHANGED <<AGGRESSIVE, target, dirs, disk, ledger, last, arg>>

NextCrash ==
    \/ \E force \in BOOLEAN, dry \in BOOLEAN, max_count \in 0..MaxCount :
          Main(force, dry, max_count)
    \/ StartFile
    \/ FinishFile
    \/ SaveStateWrite
    \/ CrashRun
    \/ MainReturns

SpecCrash == InitProcessed /\ [][NextCrash]_vars

----------------------------------------------------------------------------
(* improver_loop.py: the confidence score *)

\* the metrics compute_confidence is given: num_call_sites and tests_impact
\* are integers, llm_confidence is counted in hundredths
MaxCallSites == 12
MaxLlmConf == 150
MaxTestsImpact == 2
CallSites == (0 - 2)..MaxCallSites
LlmConfs == {c \in (0 - 100)..MaxLlmConf : c % 25 = 0}
TestsImpacts == (0 - 1)..MaxTestsImpact
Metrics == [num_call_sites : CallSites, llm_confidence : LlmConfs,
            tests_impact : TestsImpacts]

\* the penalty for failing tests, taken before the model's confidence is added
compute_confidence_penalty_first(metrics) ==
    LET evidence == Min(4000, 500 * metrics.num_call_sites)
        penalized == IF metrics.tests_impact > 0 THEN (evidence * 3) \div 10
                     ELSE evidence
    IN  Min(10000, penalized + Min(5000, 50 * metrics.llm_confidence))

\* compute_confidence, the score counted in ten-thousandths: 0.4 is 4000,
\* 0.05 a call site is 500, half of a hundredth of confidence is 50, and
\* score *= 0.3 is exact because every score is a multiple of 50
compute_confidence(metrics) ==
    LET num_call_sites == metrics.num_call_sites
        llm_conf == metrics.llm_confidence
        tests_impact == metrics.tests_impact
        score == Min(4000, 500 * num_call_sites) + Min(5000, 50 * llm_conf)
        penalized == IF tests_impact > 0 THEN (score * 3) \div 10 ELSE score
    IN  Min(10000, penalized)

InitScore ==
    /\ WriterAtRest
    /\ arg \in Metrics
    /\ res = NoRes

\* score = compute_confidence(metrics)
Score ==
    /\ pc = "pure"
    /\ Len(res) = 0
    /\ res' = <<compute_confidence(arg)>>
    /\ UNCHANGED <<AGGRESSIVE, target, dirs, disk, ledger, last, pc, cur, arg>>

NextScore == Score

SpecScore == InitScore /\ [][NextScore]_vars

----------------------------------------------------------------------------
(* improver_loop.py: build_and_test_xcode, fix_errors, apply_patch, main_loop *)

\* the file every suggestion of generate_error_fixes names, under anchor_dir,
\* and file_path.with_suffix(f"{file_path.suffix}.bak")
Suggested == "path/to/file.swift"
backup_path(file_path) == "path/to/file.swift.bak"
PatchText == <<"p">>

\* the lines of a build log: one with "error:" in it and one without
ErrorLine == "error:"
NoteLine == "note:"
MaxLogLines == 2
ErrorLogs == UNION {[1..k -> {ErrorLine, NoteLine}] : k \in 0..MaxLogLines}

\* cfg: DEFAULT_CONFIG updated from the config file and --dry-run; the
\* threshold and the confidences are counted in ten-thousandths
MaxIterations == 2
Thresholds == {5000, 8500}
Cfgs == [dry_run : BOOLEAN, auto_apply : BOOLEAN,
         confidence_threshold : Thresholds,
         xcode_scheme : {"", "Tests"}, max_iterations : 0..MaxIterations]

\* the tree before a run: the suggested file is there or not, and a backup
\* of an earlier run may be lying beside it
LoopDisks ==
    {[p \in {Suggested, backup_path(Suggested)} |->
         IF p = Suggested THEN f ELSE b] :
       f \in {File(<<"a">>), NoFile}, b \in {NoFile, File(<<"b">>)}}

\* dict.get(key, default)
get(d, key, default) == IF key \in DOMAIN d THEN d[key] ELSE default

\* subprocess.run(..., timeout=timeout): the exit status, or TimeoutExpired
\* raised when the command outlives the timeout
run_cmd(ret, timed_out) ==
    IF timed_out THEN [raised |-> TRUE, ret |-> 0]
    ELSE [raised |-> FALSE, ret |-> ret]

\* build_and_test_xcode: the dict it returns, unless run_cmd raises; the
\* simulator boot before it swallows every exception of its own
build_and_test_xcode(cfg, ret, timed_out) ==
    IF cfg.xcode_scheme = ""
    THEN [raised |-> FALSE,
          info |-> [success |-> FALSE, stdout |-> <<>>,
                    stderr |-> <<"No xcode_scheme configured">>, cmd |-> ""]]
    ELSE LET r == run_cmd(ret, timed_out)
         IN  [raised |-> r.raised,
              info |-> [success |-> (r.ret = 0),
                        stdout |-> IF r.ret = 0 THEN <<>> ELSE <<ErrorLine>>,
                        stderr |-> <<>>, cmd |-> "xcodebuild test"]]

\* generate_error_fixes: one suggestion for every line with "error:" in it
generate_error_fixes(error_log) ==
    [i \in 1..Len(SelectSeq(error_log, LAMBDA line : line = ErrorLine)) |->
        [file |-> Suggested, patch |-> PatchText, confidence |-> 8000]]

\* apply_patch: copy the file to its .bak, then write original + "\n" +
\* patch_text; when the copy raises (no such file) the handler copies an
\* existing .bak over the file and returns False
apply_patch(d, file_path, patch_text) ==
    LET bak == backup_path(file_path)
    IN  IF ~exists(d, file_path)
        THEN [disk |-> IF exists(d, bak) THEN [d EXCEPT ![file_path] = d[bak]]
                       ELSE d,
              ret |-> FALSE, original |-> <<>>]
        ELSE LET original == d[file_path].text
                 patched == original \o <<LF>> \o patch_text
             IN  [disk |-> [d EXCEPT ![bak] = d[file_path],
                                     ![file_path] = File(patched)],
                  ret |-> TRUE, original |-> original]

\* for suggestion in suggestions: return True at the first patch applied
RECURSIVE apply_first(_, _)
apply_first(d, suggestions) ==
    IF suggestions = <<>> THEN [disk |-> d, ret |-> FALSE, original |-> <<>>]
    ELSE LET r == apply_patch(d, Head(suggestions).file, Head(suggestions).patch)
         IN  IF r.ret THEN r ELSE apply_first(r.disk, Tail(suggestions))

\* fix_errors(error_log, cfg): cfg is read for anchor_dir only
fix_errors(d, error_log, cfg) == apply_first(d, generate_error_fixes(error_log))

\* add_missing_features: is_api_client_complete and is_ui_complete are True
add_missing_features(cfg) == FALSE

\* the locals of main_loop, and what is remembered of the calls so far:
\*   pre           the file as it was before each patch applied, in order
\*   tested        the build/test result since the latest patch was applied
\*   branch        the branch that is checked out
\*   mutated_main  a patch was applied while main was checked out
\*   timed_out     the build/test command outlived its timeout
\*   builds        the calls of build_and_test_xcode so far
\*   restarts      the times the cycle was restarted with continue
NoInfo == [success |-> FALSE, stdout |-> <<>>, stderr |-> <<>>, cmd |-> ""]
NoLoop == [iteration |-> 0, xcode_info |-> NoInfo, error_log |-> <<>>,
           pre |-> <<>>, tested |-> "none", branch |-> "main",
           mutated_main |-> FALSE, timed_out |-> FALSE, builds |-> 0,
           restarts |-> 0]

\* what a call of fix_errors leaves behind in the locals
fixed(c, r) ==
    IF r.ret
    THEN [c EXCEPT !.pre = Append(@, File(r.original)), !.tested = "none",
                   !.mutated_main = @ \/ c.branch = "main"]
    ELSE c

InitLoop ==
    /\ WriterUnused
    /\ disk \in LoopDisks
    /\ arg \in Cfgs
    /\ cur = NoLoop
    /\ pc = "loop"
    /\ res = {}

\* the loop that goes round whatever the count
iterations_left_always(iteration, cfg) == TRUE

\* iteration < cfg.get('max_iterations', 50)
iterations_left(iteration, cfg) == iteration < cfg.max_iterations

\* while iteration < cfg.get('max_iterations', 50): iteration += 1
Iterate ==
    /\ pc = "loop"
    /\ IF iterations_left(cur.iteration, arg)
       THEN /\ cur' = [cur EXCEPT !.iteration = @ + 1]
            /\ pc' = "build"
       ELSE /\ cur' = cur
            /\ pc' = "completed"
    /\ UNCHANGED <<AGGRESSIVE, target, dirs, disk, ledger, last, arg, res>>

\* 1) xcode_info = build_and_test_xcode(cfg); nothing in main_loop or under
\* it catches the TimeoutExpired of run_cmd
BuildAndTestXcode(ret, timed_out) ==
    /\ pc = "build"
    /\ LET r == build_and_test_xcode(arg, ret, timed_out)
       IN  IF r.raised
           THEN /\ cur' = [cur EXCEPT !.timed_out = TRUE, !.builds = @ + 1]
                /\ res' = res \cup {"TimeoutExpired"}
                /\ pc' = "crashed"
           ELSE /\ cur' = [cur EXCEPT !.xcode_info = r.info,
                                      !.builds = @ + 1,
                                      !.tested = IF cur.pre = <<>> THEN "none"
                                                 ELSE IF r.info.success THEN "passed"
                                                 ELSE "failed"]
                /\ res' = res
                /\ pc' = "built"
    /\ UNCHANGED <<AGGRESSIVE, target, dirs, disk, ledger, last, arg>>

\* the rest of the iteration: on success add features or stop; on failure
\* 2) fix_errors on the 'output' and 'error' of xcode_info, 3) add features,
\* or stop for manual intervention
Handle ==
    /\ pc = "built"
    /\ IF cur.xcode_info.success
       THEN /\ pc' = IF add_missing_features(arg) THEN "loop" ELSE "completed"
            /\ res' = res \cup {"Build successful!"}
            /\ UNCHANGED <<cur, disk>>
       ELSE LET error_log == get(cur.xcode_info, "output", <<>>)
                                \o get(cur.xcode_info, "error", <<>>)
                r == fix_errors(disk, error_log, arg)
            IN  /\ disk' = r.disk
                /\ cur' = fixed([cur EXCEPT !.error_log = error_log], r)
                /\ res' = res \cup {"Build failed."}
                /\ pc' = IF r.ret \/ add_missing_features(arg) THEN "loop"
                         ELSE "completed"
    /\ UNCHANGED <<AGGRESSIVE, target, dirs, ledger, last, arg>>

NextLoop ==
    \/ Iterate
    \/ \E ret \in {0, 65}, timed_out \in BOOLEAN : BuildAndTestXcode(ret, timed_out)
    \/ Handle

SpecLoop == InitLoop /\ [][NextLoop]_vars

\* main_loop with what its callees find left open: error_log is the log
\* fix_errors works on, added is what add_missing_features returns
HandleOpen(error_log, added) ==
    /\ pc = "built"
    /\ IF cur.xcode_info.success
       THEN /\ pc' = IF added THEN "loop" ELSE "completed"
            /\ cur' = IF added THEN [cur EXCEPT !.restarts = @ + 1] ELSE cur
            /\ res' = res \cup {"Build successful!"}
            /\ disk' = disk
       ELSE LET r == fix_errors(disk, error_log, arg)
                again == r.ret \/ added
            IN  /\ disk' = r.disk
                /\ cur' = [fixed([cur EXCEPT !.error_log = error_log], r)
                              EXCEPT !.restarts = IF again THEN @ + 1 ELSE @]
                /\ res' = res \cup {"Build failed."}
                /\ pc' = IF again THEN "loop" ELSE "completed"
    /\ UNCHANGED <<AGGRESSIVE, target, dirs, ledger, last, arg>>

NextBound ==
    \/ Iterate
    \/ \E ret \in {0, 65}, timed_out \in BOOLEAN : BuildAndTestXcode(ret, timed_out)
    \/ \E error_log \in ErrorLogs, added \in BOOLEAN : HandleOpen(error_log, added)

SpecBound == InitLoop /\ [][NextBound]_vars

\* the same operations called one by one by a caller that hands fix_errors
\* the build log: as many patches as MaxApplies
MaxApplies == 2

InitPatch ==
    /\ WriterUnused
    /\ disk \in LoopDisks
    /\ arg \in Cfgs
    /\ cur = NoLoop
    /\ pc = "idle"
    /\ res = {}

CallBuildAndTestXcode(ret) ==
    /\ pc = "idle"
    /\ LET r == build_and_test_xcode(arg, ret, FALSE)
       IN  cur' = [cur EXCEPT !.xcode_info = r.info,
                              !.tested = IF cur.pre = <<>> THEN "none"
                                         ELSE IF r.info.success THEN "passed"
                                         ELSE "failed"]
    /\ UNCHANGED <<AGGRESSIVE, target, dirs, disk, ledger, last, arg, pc, res>>

CallFixErrors(error_log) ==
    /\ pc = "idle"
    /\ Len(cur.pre) < MaxApplies
    /\ LET r == fix_errors(disk, error_log, arg)
       IN  /\ disk' = r.disk
           /\ cur' = fixed([cur EXCEPT !.error_log = error_log], r)
           /\ res' = IF r.ret THEN res \cup {"Applied fix"} ELSE res
    /\ UNCHANGED <<AGGRESSIVE, target, dirs, ledger, last, arg, pc>>

\* git_create_branch_and_commit: nothing in a dry run; git checkout -b fails
\* when the branch is there already
GitCreateBranchAndCommit ==
    /\ pc = "idle"
    /\ cur' = IF arg.dry_run THEN cur
              ELSE IF cur.branch = "main" THEN [cur EXCEPT !.branch = "improver"]
              ELSE cur
    /\ res' = res \cup {IF arg.dry_run THEN "[DRY-RUN] Would create branch"
                        ELSE IF cur.branch = "main" THEN "Created branch"
                        ELSE "Failed to create branch"}
    /\ UNCHANGED <<AGGRESSIVE, target, dirs, disk, ledger, last, arg, pc>>

\* the caller is done
CallerDone ==
    /\ pc = "idle"
    /\ pc' = "completed"
    /\ UNCHANGED <<AGGRESSIVE, target, dirs, disk, ledger, last, arg, cur, res>>

NextPatch ==
    \/ \E ret \in {0, 65} : CallBuildAndTestXcode(ret)
    \/ \E error_log \in ErrorLogs : CallFixErrors(error_log)
    \/ GitCreateBranchAndCommit
    \/ CallerDone

SpecPatch == InitPatch /\ [][NextPatch]_vars

----------------------------------------------------------------------------
(* Properties of the writer, checked under Spec *)

\* a call of atomic_write completes in this step
CallStep == last'.seq # last.seq

\* ... with dry off
RealCall == CallStep /\ ~last'.dry

\* the target holds a text whose normalization is not that of c
HoldsOtherText(d, path, c) ==
    /\ readable(d, path)
    /\ normalize_text(d[path].text) # normalize_text(c)

\* C1 as stated: of two calls in a row with the same arguments and dry off,
\* the first returns true, the second returns false, and the file then
\* holds normalize_text(content) -- for every path and content; stated here
\* for the targets that exist and have an accepted name only.
C1_TrueThenFalse ==
    (last.called /\ ~last.dry /\ readable(disk, target)
        /\ ~SuspiciousName(target.name)) =>
        IF last.repeats
        THEN ~last.ret /\ disk[target] = File(normalize_text(last.contents))
        ELSE last.ret

\* C1 amended: the second of two such calls returns false and changes neither
\* disk nor ledger; and when the target exists, has an accepted name and holds
\* a text whose normalization differs from normalize_text(content), the first
\* call returns true and the file holds normalize_text(content) after the
\* first call and after both.
C1_Idempotent ==
    [][RealCall =>
        /\ (~last'.repeats /\ HoldsOtherText(disk, target, last'.contents)
               /\ ~SuspiciousName(target.name))
             => (last'.ret /\ disk'[target] = File(normalize_text(last'.contents)))
        /\ last'.repeats
             => /\ ~last'.ret
                /\ disk' = disk
                /\ ledger' = ledger
                /\ last.ret => disk'[target] = File(normalize_text(last'.contents))
      ]_vars

\* the second call has returned false after a first that wrote a text which
\* normalization changed
C1_Witness ==
    /\ last.called /\ ~last.dry /\ last.repeats /\ last.prev_ret /\ ~last.ret
    /\ last.contents # normalize_text(last.contents)
    /\ disk[target] = File(normalize_text(last.contents))

\* C3: when the target holds a text with the same normalization as the new
\* content, raw or already normalized, the call with dry off writes no file
\* and returns false.
C3_CosmeticVarianceNoRewrite ==
    [][(RealCall /\ readable(disk, target)
          /\ normalize_text(disk[target].text) = normalize_text(last'.contents))
        => (~last'.ret /\ disk' = disk)
      ]_vars

\* a no-op on a file whose raw text is neither the new content nor its
\* normalization
C3_Witness ==
    /\ last.called /\ last.reason = "noop"
    /\ readable(disk, target)
    /\ disk[target].text # last.contents
    /\ disk[target].text # normalize_text(last.contents)
    /\ last.contents # normalize_text(last.contents)

\* C4 as stated: a call with dry off that skips the write of an existing
\* target does so only when the normalized on-disk text equals the normalized
\* new content -- so an existing target with different content is always
\* rewritten.
C4_SkipsOnlyWhenEqual ==
    (last.called /\ ~last.dry /\ ~last.ret /\ readable(disk, target))
        => normalize_text(disk[target].text) = normalize_text(last.contents)

\* C4 amended: for an existing target whose name the suspicious-name guard
\* accepts, the call with dry off writes exactly when the normalized on-disk
\* text differs from the normalized new content, and then the file holds the
\* normalized new content -- whatever the ledger entry is, in both modes.
C4_LedgerNeverAuthoritative ==
    [][(RealCall /\ readable(disk, target) /\ ~SuspiciousName(target.name))
        => /\ last'.ret <=> HoldsOtherText(disk, target, last'.contents)
           /\ last'.ret => disk'[target] = File(normalize_text(last'.contents))
      ]_vars

\* in non-aggressive mode a file was rewritten although the ledger entry
\* already equalled the new hash
C4_Witness ==
    /\ last.called /\ last.ret /\ last.cached /\ ~AGGRESSIVE
    /\ disk[target] = File(normalize_text(last.contents))

\* C5: after a call that wrote, or that reported a no-op on an identical
\* file, the ledger entry of the path is the hash of the normalized text on
\* disk.
C5_LedgerConsistent ==
    (last.called /\ last.reason \in {"wrote", "noop"})
        => /\ readable(disk, target)
           /\ ledger[target] = sha256_text(normalize_text(disk[target].text))

\* a no-op that found the ledger entry absent or stale, and repaired it
C5_Witness ==
    /\ last.called /\ last.reason = "noop" /\ ~last.cached
    /\ ledger[target] = sha256_text(normalize_text(last.contents))

\* C6: with dry set the call returns true and leaves every file, every
\* directory and the ledger as they were.
C6_DryRunTouchesNothing ==
    [][(CallStep /\ last'.dry)
        => (last'.ret /\ disk' = disk /\ ledger' = ledger /\ dirs' = dirs)
      ]_vars

\* a dry call on a missing path with a suspicious name has returned true
C6_Witness ==
    /\ last.called /\ last.dry /\ last.ret
    /\ SuspiciousName(target.name)
    /\ ~exists(disk, target)

ShortNoExtension(name) ==
    name = <<>> \/ (Len(name) <= 3 /\ suffix(name) = <<>>)

\* C8 as stated: a call with dry off on any file name that is empty or has
\* length <= 3 and no extension returns false.
C8_RefusesShortNoExtension ==
    (last.called /\ ~last.dry /\ ShortNoExtension(target.name)) => ~last.ret

\* C8 amended: a call with dry off on a file name that is empty, or has
\* length <= 3, no extension and only alphabetic characters, returns false
\* and leaves disk and ledger unchanged.
C8_RefusesSuspicious ==
    [][(RealCall /\ ShortNoExtension(target.name)
          /\ (target.name = <<>> \/ isalpha(target.name)))
        => (~last'.ret /\ disk' = disk /\ ledger' = ledger /\ dirs' = dirs)
      ]_vars

\* an existing two-letter file with other content was refused
C8_Witness ==
    /\ last.called /\ last.reason = "suspicious" /\ ~last.ret
    /\ target.name = <<"a", "b">>
    /\ HoldsOtherText(disk, target, last.contents)

----------------------------------------------------------------------------
(* Crash safety, checked under SpecSteps *)

\* C9: at every step of a call, and after a crash at any step, the target
\* holds its whole previous content or the whole new normalized content; and
\* the ledger entry differs from the one the call found only once the target
\* holds the new normalized content (after the rename, when the call writes).
C9_NeverCorrupt ==
    pc # "idle" =>
        /\ disk[target] \in {cur.old, File(cur.new_norm)}
        /\ ledger[target] # cur.old_ledger
             => /\ readable(disk, target)
                /\ normalize_text(disk[target].text) = cur.new_norm
                /\ cur.reason = "wrote" => disk[target] = File(cur.new_norm)

\* a crash while the temporary file holds part of the new text: the target
\* still holds its previous, different text
C9_Witness ==
    /\ pc = "crashed" /\ cur.reason = "wrote"
    /\ readable(disk, with_suffix_tmp(target))
    /\ Len(disk[with_suffix_tmp(target)].text) > 0
    /\ disk[with_suffix_tmp(target)].text # cur.new_norm
    /\ readable(disk, target)
    /\ disk[target] = cur.old
    /\ disk[target] # File(cur.new_norm)

----------------------------------------------------------------------------
(* Properties of the pure functions *)

\* C2: normalize_text is idempotent -- normalizing a normalized text gives
\* the same text, for every input (checked under SpecNorm).
C2_NormalizeIdempotent == Len(res) = 2 => res[2] = res[1]

\* a text with a leading blank line, trailing whitespace and a CR was
\* normalized twice
C2_Witness ==
    /\ arg = <<LF, "a", SP, CR>>
    /\ Len(res) = 2
    /\ res[1] = <<LF, "a", LF>>

\* C10: same_issue_sig(a, b) = same_issue_sig(b, a) for all signatures a and
\* b (checked under SpecSig).
C10_SignatureSymmetric == Len(res) = 2 => res[1] = res[2]

\* two signatures, neither inside the other, matched by their tokens in both
\* orders
C10_Witness ==
    /\ Len(res) = 2
    /\ res[1] /\ res[2]
    /\ ~contains(arg[1], arg[2]) /\ ~contains(arg[2], arg[1])
    /\ arg[1] # lower(arg[1])

\* the match as the signature rule words it: one signature inside the other,
\* or at least half of the smaller case-insensitive word set shared
SubstringOrHalfShared(a, b) ==
    LET wa == findall_words(lower(a))
        wb == findall_words(lower(b))
        smaller == Min(Cardinality(wa), Cardinality(wb))
    IN  \/ contains(b, a)
        \/ contains(a, b)
        \/ (smaller > 0 /\ 2 * Cardinality(wa \cap wb) >= smaller)

\* C11 as stated: for all strings a and b, same_issue_sig(a, b) is true
\* exactly when a is a substring of b, or b of a, or their token overlap is
\* at least 0.5 (checked under SpecSig; the empty string refutes it).
C11_ExactlyWhen ==
    Len(res) >= 1 => (res[1] <=> SubstringOrHalfShared(arg[1], arg[2]))

\* C11 amended: for all non-empty strings a and b, same_issue_sig(a, b) is
\* true exactly when a is a substring of b, or b of a, or their token overlap
\* is at least 0.5; with an empty a or b it is false.
C11_NonEmptyExactlyWhen ==
    Len(res) >= 1 =>
        IF arg[1] = <<>> \/ arg[2] = <<>> THEN ~res[1]
        ELSE res[1] <=> SubstringOrHalfShared(arg[1], arg[2])

\* two non-empty signatures matched only because the second lies inside the
\* first
C11_Witness ==
    /\ Len(res) >= 1
    /\ res[1]
    /\ arg[2] # <<>>
    /\ contains(arg[1], arg[2])
    /\ ~contains(arg[2], arg[1])
    /\ findall_words(lower(arg[1])) \cap findall_words(lower(arg[2])) = {}

----------------------------------------------------------------------------
(* Properties of ai_fix, one run after another, checked under SpecFix *)

\* some issue of the run's log matches the stored signature
MatchesLog(signature) ==
    \E j \in 1..Len(arg.current_issues) :
        same_issue_sig(signature, arg.current_issues[j].signature)

\* the run has just written issues.json
Saved == pc = "done" /\ cur.persisted

\* C12 as stated: after any run of ai_fix that reaches a persist step, every
\* stored resolution of the persisted issue memory matches an issue detected
\* from the run's log (a run with --mark-resolved refutes it).
C12_PersistedMatchesLog ==
    Saved => \A i \in 1..Len(disk[ISSUES_DB]) :
                MatchesLog(disk[ISSUES_DB][i].signature)

\* C12 amended: after any run of ai_fix without --mark-resolved that reaches
\* a persist step, every stored resolution of the persisted issue memory
\* matches an issue detected from the run's log, and every resolution the run
\* found in the memory that matches none of them is gone from it.
C12_AutoForget ==
    (Saved /\ arg.mode # "mark_resolved") =>
        /\ \A i \in 1..Len(disk[ISSUES_DB]) :
              MatchesLog(disk[ISSUES_DB][i].signature)
        /\ \A i \in 1..Len(cur.loaded) :
              ~MatchesLog(cur.loaded[i].signature) =>
                  \A k \in 1..Len(disk[ISSUES_DB]) :
                      disk[ISSUES_DB][k].id # cur.loaded[i].id

\* a run over a log with an issue in it forgot one stored resolution and
\* kept another
C12_Witness ==
    /\ Saved
    /\ arg.mode = "fix"
    /\ arg.current_issues # <<>>
    /\ \E i \in 1..Len(cur.loaded) : ~MatchesLog(cur.loaded[i].signature)
    /\ \E i \in 1..Len(cur.loaded) :
          /\ MatchesLog(cur.loaded[i].signature)
          /\ \E k \in 1..Len(disk[ISSUES_DB]) :
                disk[ISSUES_DB][k].id = cur.loaded[i].id

\* every stored resolution, in the memory of the run and on disk
StoredResolutions ==
    {cur.issues_db[i] : i \in 1..Len(cur.issues_db)}
        \cup {disk[ISSUES_DB][i] : i \in 1..Len(disk[ISSUES_DB])}

\* the k-th current issue meets a stored resolution for the file in turn that
\* differs from the file and has used up its reuses
AtLimit(k) ==
    LET db == cur.issues_db
        hit == {i \in 1..Len(db) :
                   same_issue_sig(db[i].signature, arg.current_issues[k].signature)}
    IN  /\ hit # {}
        /\ LET s == db[CHOOSE i \in hit : \A j \in hit : i <= j]
           IN  /\ s.files[cur.file_path] \notin {<<>>, cur.content}
               /\ s.reuseCount >= arg.MAX_ISSUE_REUSE

\* the id of the stored resolution the k-th current issue meets
MetId(k) ==
    LET db == cur.issues_db
        hit == {i \in 1..Len(db) :
                   same_issue_sig(db[i].signature, arg.current_issues[k].signature)}
    IN  db[CHOOSE i \in hit : \A j \in hit : i <= j].id

\* C13: a stored resolution whose reuseCount has reached MAX_ISSUE_REUSE is
\* never re-applied to a file but reported for manual review, the file left
\* as it was; over any sequence of runs no reuseCount exceeds MAX_ISSUE_REUSE
\* (checked under SpecFix, MAX_ISSUE_REUSE the same in every run).
C13_ReuseBound ==
    /\ \A s \in StoredResolutions : s.reuseCount <= arg.MAX_ISSUE_REUSE
    /\ pc \in {"reuse", "analyze"} =>
          \A k \in 1..(cur.ci - 1) :
              AtLimit(k) =>
                  /\ Line("reuse_limit_manual_review", MetId(k)) \in res
                  /\ Line("reapplied", MetId(k)) \notin res
                  /\ disk[cur.file_path] = File(cur.content)
                  /\ ~cur.backed_up

\* a resolution re-applied as often as allowed has met the file once more,
\* the file differing from it, and was reported instead
C13_Witness ==
    /\ pc = "analyze"
    /\ arg.MAX_ISSUE_REUSE >= 1
    /\ \E k \in 1..Len(arg.current_issues) :
          /\ AtLimit(k)
          /\ Line("reuse_limit_manual_review", MetId(k)) \in res
          /\ \E i \in 1..Len(cur.issues_db) :
                /\ cur.issues_db[i].id = MetId(k)
                /\ cur.issues_db[i].reuseCount = arg.MAX_ISSUE_REUSE

\* C14: ai_analyze_then_fix is invoked for a file only after every current
\* issue has been checked against the issue memory, and not at all when a
\* stored resolution was re-applied, or found already present, for the file
\* (checked under SpecFix).
C14_ReuseBeforeGeneration ==
    /\ (pc = "analyze" \/ cur.generated) =>
          /\ cur.ci = Len(arg.current_issues) + 1
          /\ ~cur.applied_stored
    /\ (\E l \in res : l[1] \in {"reapplied", "already_present", "would_reapply"})
          => (~cur.generated /\ cur.applied_stored)

\* generation ran for a file after both current issues were checked, one of
\* them meeting a resolution at its reuse limit
C14_Witness ==
    /\ cur.generated
    /\ Len(arg.current_issues) = 2
    /\ \E l \in res : l[1] = "reuse_limit_manual_review"
    /\ \E l \in res : l[1] = "apply"

----------------------------------------------------------------------------
(* Properties of the stable proposals, checked under SpecConv and SpecThink *)

\* the passes that propose content for path
Votes(path, content) ==
    Cardinality({k \in 1..Len(arg) :
                    path \in DOMAIN arg[k] /\ arg[k][path] = content})

\* content has the absolute majority of the passes for path
Majority(path, content) == 2 * Votes(path, content) > Len(arg)

\* the last two passes propose the same content for path
LastTwoAgree(path) ==
    /\ Len(arg) >= 2
    /\ path \in DOMAIN arg[Len(arg)]
    /\ path \in DOMAIN arg[Len(arg) - 1]
    /\ arg[Len(arg)][path] = arg[Len(arg) - 1][path]

\* every pass proposes content for path
ProposedByAll(path) == \A k \in 1..Len(arg) : path \in DOMAIN arg[k]

\* the converged proposal has content for path
Accepted(path, content) ==
    path \in DOMAIN res[1] /\ res[1][path] = content

\* C15: for every path, content proposed for it in more than passes/2 of the
\* passes is accepted for the path (checked under SpecConv on the paths every
\* pass proposes; A, A, B over three passes refutes it of the code).
C15_MajorityAccepted ==
    Len(res) = 1 =>
        \A path \in ConvPaths, content \in ConvContents :
            (ProposedByAll(path) /\ Majority(path, content))
                => Accepted(path, content)

\* C16: for every path with no absolute-majority content, content is accepted
\* if and only if the last two passes proposed the same content for it, and
\* it is then the content of the last pass (checked under SpecConv on the
\* paths every pass proposes; A, A, B, B over four passes refutes it of the
\* code).
C16_LastTwoAccepted ==
    Len(res) = 1 =>
        \A path \in ConvPaths :
            (/\ ProposedByAll(path)
             /\ \A content \in ConvContents : ~Majority(path, content)) =>
                /\ path \in DOMAIN res[1] <=> LastTwoAgree(path)
                /\ path \in DOMAIN res[1] => res[1][path] = arg[Len(arg)][path]

\* C17: a path whose proposed contents have neither an absolute majority nor
\* the agreement of the last two passes is absent from the converged
\* proposal, the only thing handed on to be written; every path and content
\* of the converged proposal was proposed by at least one pass (checked under
\* SpecConv).
C17_UnstableNeverApplied ==
    Len(res) = 1 =>
        \A path \in DOMAIN res[1] :
            /\ Majority(path, res[1][path]) \/ LastTwoAgree(path)
            /\ \E k \in 1..Len(arg) :
                  path \in DOMAIN arg[k] /\ arg[k][path] = res[1][path]

\* two passes disagree on one path and agree on the other: the first is
\* dropped, the second kept
C17_Witness ==
    /\ Len(res) = 1
    /\ Len(arg) = 2
    /\ "view" \in DOMAIN arg[1] /\ "view" \in DOMAIN arg[2]
    /\ arg[1]["view"] # arg[2]["view"]
    /\ "view" \notin DOMAIN res[1]
    /\ "viewmodel" \in DOMAIN res[1]

----------------------------------------------------------------------------
(* Properties of ai_analyze_then_fix, checked under SpecVerify *)

\* the turn of a file in which ai_analyze_then_fix was called has ended
Returned == cur.generated /\ pc \in {"file", "persist", "done"}

NoVerifiedFix == Line("no_verified_fix", NoId) \in res

\* C19: ai_analyze_then_fix makes at most MAX_AI_ATTEMPTS rewrite attempts;
\* when no attempt passes the self-check it returns None, the per-file flow
\* prints 'no verified fix', and the file, its backups and the stored
\* resolutions are as they were when the file's turn began (checked under
\* SpecVerify).
C19_BoundedAttempts ==
    /\ cur.rewrites <= arg.MAX_AI_ATTEMPTS
    /\ cur.attempt <= arg.MAX_AI_ATTEMPTS + 1
    /\ (Returned /\ cur.oks = 0) => NoVerifiedFix
    /\ NoVerifiedFix =>
          /\ cur.oks = 0
          /\ cur.fixed_candidate = None
          /\ disk[cur.file_path] = File(cur.content)
          /\ ~cur.backed_up
          /\ cur.file_path \notin cur.changed_files
          /\ cur.issues_db = cur.db_before

\* every one of three attempts was answered and failed its self-check, and
\* the run was not a dry one
C19_Witness ==
    /\ NoVerifiedFix
    /\ ~arg.DRY_RUN
    /\ arg.MAX_AI_ATTEMPTS = 3
    /\ cur.rewrites = 3
    /\ Len(cur.critiques) = 3

\* C20: the first rewrite whose self-check returns ok is returned as the
\* verified candidate and no further attempt is made; every self-check that
\* is not ok appends its critique to the plan text, so that each rewrite is
\* asked for with the critiques of all failed attempts before it (checked
\* under SpecVerify).
C20_FirstOkReturned ==
    /\ cur.oks <= 1
    /\ cur.oks = 1 =>
          /\ pc \in {"apply", "file", "persist", "done"}
          /\ ~NoVerifiedFix
          /\ pc = "apply" => cur.fixed_candidate \in FixTexts
    /\ cur.rewrites >= 1 =>
          /\ cur.plan_text = <<"plan">> \o cur.critiques
          /\ \E n \in 0..Len(cur.critiques) :
                cur.given = <<"plan">> \o SubSeq(cur.critiques, 1, n)
    /\ pc \in {"check", "apply"} => cur.given = <<"plan">> \o cur.critiques

\* the third rewrite, asked for with the two different critiques of the first
\* two, passed its self-check
C20_Witness ==
    /\ pc = "apply"
    /\ cur.oks = 1
    /\ cur.rewrites = 3
    /\ Len(cur.critiques) = 2
    /\ cur.critiques[1] # cur.critiques[2]
    /\ cur.given = <<"plan">> \o cur.critiques

\* C21: a verified candidate whose hash is the one the cache on disk holds
\* for the file is not applied: the file stays as the run read it, no backup
\* is made, no resolution is stored and the file is not among the changed
\* files; and over any number of runs whose generator returns the same
\* content, that content is applied as an AI fix at most once
Duplicate ==
    /\ pc \in {"file", "persist"}
    /\ cur.generated
    /\ cur.fixed_candidate # None
    /\ disk[CACHE_PATH][cur.file_path] = sha256(cur.fixed_candidate)

C21_DuplicateGuard ==
    /\ Duplicate =>
          /\ disk[cur.file_path] = File(cur.content)
          /\ ~cur.backed_up
          /\ cur.file_path \notin cur.changed_files
          /\ cur.issues_db = cur.db_before
          /\ Line("duplicate", NoId) \in res
          /\ Line("apply", NoId) \notin res
    /\ arg.history.applied <= 1

\* the generator's content was applied by an earlier run, the file was put
\* back since, and the generator has returned the same content again
C21_Witness ==
    /\ Duplicate
    /\ arg.history.applied = 1
    /\ cur.content # cur.fixed_candidate
    /\ ~arg.DRY_RUN

\* C22: the score is min(0.4, 0.05 * num_call_sites) + min(0.5, 0.5 *
\* llm_confidence), times 0.3 when tests_impact > 0; for 10 call sites and a
\* confidence of 1.0 it is 0.9, and 0.27 when tests_impact is 1
Scored == Len(res) = 1

Formula(m) ==
    LET sum == Min(4000, 500 * m.num_call_sites) + Min(5000, 50 * m.llm_confidence)
    IN  IF m.tests_impact > 0 THEN (3 * sum) \div 10 ELSE sum

C22_ConfidenceFormula ==
    Scored =>
       /\ res[1] = Formula(arg)
       /\ (arg.num_call_sites = 10 /\ arg.llm_confidence = 100) =>
             /\ arg.tests_impact = 0 => res[1] = 9000
             /\ arg.tests_impact = 1 => res[1] = 2700

C22_Witness ==
    /\ Scored
    /\ arg.num_call_sites = 10
    /\ arg.llm_confidence = 100
    /\ arg.tests_impact = 1
    /\ res[1] = 2700

\* C23: whatever the metrics, the score lies in [0, 1]
C23_ScoreInUnitInterval == Scored => (0 <= res[1] /\ res[1] <= 10000)

\* C24: a patch is in the tree only if auto_apply is on, its confidence is at
\* least confidence_threshold and no build/test since it was applied failed
Applied == cur.pre # <<>>

C27_BackupsRetained ==
    \A i \in 1..Len(cur.pre) : disk[backup_path(Suggested)] = cur.pre[i]

\* C28: a build/test command that fails or outlives its timeout gives
\* success = False and main_loop goes on to handle the failure; the run is
\* never ended by an exception
C28_TimeoutIsFailedAttempt ==
    /\ pc # "crashed"
    /\ (cur.timed_out /\ pc \in {"built", "loop", "completed"}) =>
          ~cur.xcode_info.success

\* C29: the backends are called in the order Gemini, OpenAI, Copilot CLI; one
\* is called only if every one before it was not in use or raised; model_chat
\* returns the answer of the first backend called that gave one, and "" only
\* when no backend called gave an answer
Rank(backend) ==
    IF backend = "gemini" THEN 1 ELSE IF backend = "openai" THEN 2 ELSE 3

Called(backend) == \E i \in 1..Len(cur.calls) : cur.calls[i] = backend

Answer(backend) ==
    IF backend = "copilot" THEN call_copilot_cli(arg.rc, arg.out, arg.err)
    ELSE sdk_text(backend, arg[backend])

Succeeded(backend) == Called(backend) /\ Answer(backend) # ""

OutOfTheWay(backend) == arg[backend] \in {"unavailable", "raises"}

C29_PriorityOrder ==
    /\ \A i, j \in 1..Len(cur.calls) :
          i < j => Rank(cur.calls[i]) < Rank(cur.calls[j])
    /\ Called("openai") => OutOfTheWay("gemini")
    /\ Called("copilot") => (OutOfTheWay("gemini") /\ OutOfTheWay("openai"))
    /\ pc = "returned" =>
          /\ \A b \in {"gemini", "openai", "copilot"} :
                (Succeeded(b) /\ \A e \in {"gemini", "openai", "copilot"} :
                                    Rank(e) < Rank(b) => ~Succeeded(e))
                   => res = <<Answer(b)>>
          /\ res = <<"">> => \A b \in {"gemini", "openai", "copilot"} : ~Succeeded(b)

\* Gemini raised, OpenAI was not in use, and the answer is Copilot's
C29_Witness ==
    /\ pc = "returned"
    /\ arg.gemini = "raises"
    /\ arg.openai = "unavailable"
    /\ cur.calls = <<"gemini", "copilot">>
    /\ res = <<"c">>

\* C30: process_file is not called for a file that is in the state file as a
\* run found it, unless the run has --force, and then the loaded set is set
\* aside and any file may be processed again
C30_ProcessedNotRepeated ==
    /\ ~arg.force => Elems(cur.calls) \cap cur.loaded = {}
    /\ arg.force => (pc = "files" => cur.processed = Elems(cur.calls))
    /\ \A i, j \in 1..Len(cur.calls) : cur.calls[i] = cur.calls[j] => i = j

\* a run without --force passes over what an earlier run processed and goes
\* on to the next file
C30_Witness ==
    /\ ~arg.force
    /\ Stub \in cur.loaded
    /\ cur.calls = <<Small>>

\* a run with --force processes again what an earlier run processed
C30_ForceWitness ==
    /\ arg.force
    /\ Stub \in cur.loaded
    /\ cur.calls = <<Stub>>

----------------------------------------------------------------------------
(* Two runs of improve_features_v2.py, each inside one call of atomic_write *)
(* with dry off, their steps interleaved                                    *)

Runs == {1, 2}

\* the texts the two runs hand over, and the texts the files start with
RaceContents == {<<"a">>, <<"a", "a">>, <<SP>>}
RaceFiles == {File(<<LF>>), File(<<"a">>)}

\* the locals of a run: fd holds the path its open temporary file is linked
\* at, or nothing; clean says no other run wrote written_hashes.json since
\* this run opened it
NoLocals == [path |-> Other, contents |-> <<>>, new_norm |-> <<>>,
             hashes |-> EmptyLedger(Other), ret |-> FALSE, reason |-> "none",
             fd |-> <<>>, clean |-> TRUE]

\* write(2) at offset 0 of a file holding old
overwrite(old, new) == new \o SubSeq(old, Len(new) + 1, Len(old))

InitRace ==
    /\ AGGRESSIVE \in BOOLEAN
    /\ target = [dir |-> ExistingDir, name |-> RegularName]
    /\ dirs = {ExistingDir}
    /\ \E f \in RaceFiles :
           disk = [p \in PathsOf(target) \cup {with_suffix_tmp(Other)} |->
                      IF p = target THEN f
                      ELSE IF p = Other THEN File(OtherText)
                      ELSE NoFile]
    /\ \E h \in InitHashes : ledger = InitLedger(target, h)
    /\ last = NoCall
    /\ pc = [p \in Runs |-> "idle"]
    /\ cur = [p \in Runs |-> NoLocals]
    /\ arg = disk
    /\ res = NoRes

\* run p enters atomic_write(path, c): the guards and comparisons run on
\* what the disk holds now, with hashes = load_written_hashes()
CallOf(p, path, c) ==
    /\ pc[p] = "idle"
    /\ LET how == outcome(disk, ledger, dirs, path, c)
           new_hash == sha256_text(normalize_text(c))
       IN  /\ pc' = [pc EXCEPT ![p] =
                        IF how = "wrote" THEN "tmp_open"
                        ELSE IF how = "noop" /\ ledger[path] # new_hash
                             THEN "repair"
                        ELSE "return"]
           /\ cur' = [cur EXCEPT ![p] =
                        [path |-> path, contents |-> c,
                         new_norm |-> normalize_text(c), hashes |-> ledger,
                         ret |-> FALSE, reason |-> how, fd |-> <<>>,
                         clean |-> TRUE]]
    /\ UNCHANGED <<AGGRESSIVE, target, dirs, disk, ledger, last, arg, res>>

\* tmp.write_text opens path.with_suffix(path.suffix + ".tmp"), the same
\* name in every run: the file is created, or the one there is truncated
TmpOpenOf(p) ==
    /\ pc[p] = "tmp_open"
    /\ LET tmp == with_suffix_tmp(cur[p].path)
       IN  /\ disk' = [disk EXCEPT ![tmp] = File(<<>>)]
           /\ cur' = [cur EXCEPT ![p].fd = <<tmp>>]
    /\ pc' = [pc EXCEPT ![p] = "tmp_write"]
    /\ UNCHANGED <<AGGRESSIVE, target, dirs, ledger, last, arg, res>>

\* tmp.write_text writes the text to the file it opened, wherever that file
\* is linked by now, and closes it
TmpWriteOf(p) ==
    /\ pc[p] = "tmp_write"
    /\ disk' = IF cur[p].fd = <<>> THEN disk
               ELSE [disk EXCEPT ![cur[p].fd[1]] =
                        File(overwrite(disk[cur[p].fd[1]].text, cur[p].new_norm))]
    /\ cur' = [cur EXCEPT ![p].fd = <<>>]
    /\ pc' = [pc EXCEPT ![p] = "replace"]
    /\ UNCHANGED <<AGGRESSIVE, target, dirs, ledger, last, arg, res>>

\* tmp.replace(path): the rename, which raises FileNotFoundError when the
\* temporary file is gone; the handler of atomic_write then returns False
ReplaceOf(p) ==
    /\ pc[p] = "replace"
    /\ LET path == cur[p].path
           tmp == with_suffix_tmp(path)
       IN  IF exists(disk, tmp)
           THEN /\ disk' = [disk EXCEPT ![tmp] = NoFile, ![path] = disk[tmp]]
                /\ cur' = [q \in Runs |->
                             IF cur[q].fd = <<tmp>>
                             THEN [cur[q] EXCEPT !.fd = <<path>>]
                             ELSE IF cur[q].fd = <<path>>
                             THEN [cur[q] EXCEPT !.fd = <<>>]
                             ELSE cur[q]]
                /\ pc' = [pc EXCEPT ![p] = "persist"]
           ELSE /\ disk' = disk
                /\ cur' = [cur EXCEPT ![p].reason = "error"]
                /\ pc' = [pc EXCEPT ![p] = "return"]
    /\ UNCHANGED <<AGGRESSIVE, target, dirs, ledger, last, arg, res>>

\* save_written_hashes opens written_hashes.json, which truncates it
SaveOpenOf(p) ==
    /\ pc[p] \in {"persist", "repair"}
    /\ ledger' = EmptyLedger(target)
    /\ cur' = [cur EXCEPT ![p].clean = TRUE]
    /\ pc' = [pc EXCEPT ![p] =
                 IF pc[p] = "persist" THEN "persist_write" ELSE "repair_write"]
    /\ UNCHANGED <<AGGRESSIVE, target, dirs, disk, last, arg, res>>

\* save_written_hashes writes the hashes this run loaded when its call
\* began, with the entry of its path; written over the text of another run
\* the file may end up unreadable, which loads as {}
SaveWriteOf(p) ==
    /\ pc[p] \in {"persist_write", "repair_write"}
    /\ \E l \in {set_hash(cur[p].hashes, cur[p].path, sha256_text(cur[p].new_norm))}
                    \cup (IF cur[p].clean THEN {} ELSE {EmptyLedger(target)}) :
           ledger' = l
    /\ cur' = [q \in Runs |->
                 IF q = p THEN [cur[q] EXCEPT !.ret = (pc[p] = "persist_write")]
                 ELSE IF pc[q] \in {"persist_write", "repair_write"}
                 THEN [cur[q] EXCEPT !.clean = FALSE]
                 ELSE cur[q]]
    /\ pc' = [pc EXCEPT ![p] = "return"]
    /\ UNCHANGED <<AGGRESSIVE, target, dirs, disk, last, arg, res>>

\* the call of run p returns cur[p].ret
ReturnOf(p) ==
    /\ pc[p] = "return"
    /\ pc' = [pc EXCEPT ![p] = "returned"]
    /\ UNCHANGED <<AGGRESSIVE, target, dirs, disk, ledger, last, cur, arg, res>>

NextRace ==
    \/ \E p \in Runs, path \in {target, Other}, c \in RaceContents :
           CallOf(p, path, c)
    \/ \E p \in Runs : TmpOpenOf(p)
    \/ \E p \in Runs : TmpWriteOf(p)
    \/ \E p \in Runs : ReplaceOf(p)
    \/ \E p \in Runs : SaveOpenOf(p)
    \/ \E p \in Runs : SaveWriteOf(p)
    \/ \E p \in Runs : ReturnOf(p)

SpecRace == InitRace /\ [][NextRace]_vars

----------------------------------------------------------------------------
(* Claims about concurrent runs of the writer *)

\* the runs whose call of atomic_write has begun on path
Writers(path) == {p \in Runs : pc[p] # "idle" /\ cur[p].path = path}

\* C31: with two runs inside atomic_write at once, every file they write
\* holds, at every instant, the whole text it started with or the whole
\* normalized text handed over by one of the runs
C31_NoPartialTarget ==
    \A path \in {target, Other} :
        \/ disk[path] = arg[path]
        \/ \E p \in Writers(path) : disk[path] = File(cur[p].new_norm)

\* C32: once both runs have returned True from atomic_write, the ledger
\* entry of every path they wrote is the hash of what the path holds
C32_LedgerKeepsBothRuns ==
    (\A p \in Runs : pc[p] = "returned" /\ cur[p].ret)
        => \A p \in Runs :
               ledger[cur[p].path] = sha256_text(disk[cur[p].path].text)

----------------------------------------------------------------------------
(* One run of ai_fix.py over a working tree, with writes that may fail *)

\* the file ensure_stubs creates for the symbol the log cannot find
StubFile == "Foo.swift"
StubCode == <<"s">>

\* the files of the working tree
TreeFiles == FixFiles \cup {StubFile}

\* what the log says about the symbol: no "cannot find ... in scope" line,
\* a symbol that grep finds in the tree, or one that it does not find
Symbols == {"none", "found", "missing"}

\* how a file operation ends: done, refused by open() with the file as it
\* was, or failed in write() with the file already truncated by open()
Writes == {"ok", "open_fails", "write_fails"}

\* safe_write(path, text) on disk d, ending as how says
safe_write(d, path, text, how) ==
    IF how = "ok" THEN [d EXCEPT ![path] = File(text)]
    ELSE IF how = "write_fails" THEN [d EXCEPT ![path] = File(<<>>)]
    ELSE d

TreeDisk(files, stub, db, cache, backups) ==
    [p \in TreeFiles \cup {ISSUES_DB, CACHE_PATH, Backups} |->
        IF p \in FixFiles THEN files[p]
        ELSE IF p = StubFile THEN stub
        ELSE IF p = ISSUES_DB THEN db
        ELSE IF p = CACHE_PATH THEN cache
        ELSE backups]

\* the logs of these runs: no issue, or one issue
TreeLogs == {<<>>, <<Issue(<<"a">>)>>, <<Issue(<<"b">>)>>}

\* the globals of the run: cur while it runs
\*   failed      the files whose write of an AI fix raised
\*   pre         what such a file held when its turn began
\*   db_before   issues_db when the turn of the latest file began
\*   committed   git add and git commit were run
NoTree ==
    [issues_db |-> <<>>, cache |-> NoCache, changed_files |-> {}, fi |-> 1,
     failed |-> {}, pre |-> NoFiles, db_before |-> <<>>,
     committed |-> FALSE]

\* the run as it is started: arg holds its command line, what its log says
\* and the disk it found
InitTree ==
    /\ WriterUnused
    /\ \E t \in FileTexts, stub \in {NoFile, File(<<"a">>)},
          db \in {<<>>, Earlier},
          cache \in {NoCache, [f \in FixFiles |-> sha256(<<"b">>)]} :
          disk = TreeDisk([f \in FixFiles |-> File(t)], stub, db, cache, {})
    /\ \E dry \in BOOLEAN, commit \in BOOLEAN, issues \in TreeLogs,
          files \in LogFiles, in_excerpt \in BOOLEAN, symbol \in Symbols,
          n \in 0..MaxReuse :
          arg = [DRY_RUN |-> dry, DO_COMMIT |-> commit,
                 current_issues |-> issues, unique_files |-> files,
                 in_excerpt |-> in_excerpt, symbol |-> symbol,
                 MAX_ISSUE_REUSE |-> n, start |-> disk]
    /\ cur = NoTree
    /\ pc = "begin"
    /\ res = {}

\* ensure_stubs(raw_log): the disk it leaves and the stubs it created
ensure_stubs(d, symbol, how) ==
    IF symbol # "missing" \/ exists(d, StubFile)
    THEN [disk |-> d, created |-> {}]
    ELSE [disk |-> safe_write(d, StubFile, StubCode, how),
          created |-> IF how = "ok" THEN {StubFile} ELSE {}]

\* the script down to the per-file flow: the memory and the cache are
\* loaded, what matches no current issue is forgotten, the stubs are made
BeginTree(how) ==
    /\ pc = "begin"
    /\ LET r == ensure_stubs(disk, arg.symbol, how)
       IN  /\ disk' = r.disk
           /\ cur' = [NoTree EXCEPT
                         !.issues_db = auto_forget(disk[ISSUES_DB],
                                                   arg.current_issues),
                         !.cache = disk[CACHE_PATH],
                         !.changed_files = r.created]
    /\ pc' = "file"
    /\ UNCHANGED <<AGGRESSIVE, target, dirs, ledger, last, arg, res>>

\* the marker never looked for
carries_marker_never(content) == FALSE

\* "// DO NOT MODIFY BY AI" in content
carries_marker(content) == contains(content, DoNotModify)

\* "1) Re-apply stored solution if suitable": the loop over current_issues
\* up to the issue that sets applied_stored, if any
RECURSIVE reuse_loop(_, _, _, _, _, _, _)
reuse_loop(db, issues, ci, file_path, content, max, dry) ==
    IF ci > Len(issues) THEN [what |-> "none", sid |-> 0]
    ELSE LET what == reuse_outcome(db, issues[ci], file_path, content, max, dry)
         IN  IF reuse_next(what) = "applied"
             THEN [what |-> what, sid |-> stored_id(db, issues[ci])]
             ELSE reuse_loop(db, issues, ci + 1, file_path, content, max, dry)

\* shutil.copyfile(file_path, backup), whose failure is passed over
copy_backup(d, file_path, backup_ok) ==
    IF backup_ok THEN backup(d, file_path) ELSE d

\* the stored solution written over the file; a failed write is reported
\* and the file is left as the write left it
reapply(c, d, file_path, sid, backup_ok, how) ==
    LET kept == copy_backup(d, file_path, backup_ok)
    IN  [disk |-> safe_write(kept, file_path, c.issues_db[sid].files[file_path], how),
         cur |-> IF how = "ok"
                 THEN [c EXCEPT !.issues_db[sid].reuseCount = @ + 1,
                                !.changed_files = @ \cup {file_path}]
                 ELSE c]

\* "apply fix": the backup, the write and what follows it; when the write
\* raises, the backup is copied back, which fails when there is no backup
write_fix(c, d, a, file_path, content, fix, backup_ok, how) ==
    LET kept == copy_backup(d, file_path, backup_ok)
        written == safe_write(kept, file_path, fix, how)
    IN  IF how = "ok"
        THEN [disk |-> written,
              cur |-> [c EXCEPT
                          !.changed_files = @ \cup {file_path},
                          !.cache[file_path] = sha256(fix),
                          !.issues_db = save_fix(@, a.current_issues, file_path,
                                                 fix, content, a.in_excerpt)]]
        ELSE [disk |-> IF backup_ok
                       THEN [written EXCEPT ![file_path] = File(content)]
                       ELSE written,
              cur |-> [c EXCEPT !.failed = @ \cup {file_path},
                                !.pre[file_path] = content]]

\* the turn of one file of unique_files, from the check that it exists to
\* the continue that ends it; fix is what ai_analyze_then_fix returns
file_turn(c, d, a, file_path, fix, backup_ok, how) ==
    LET content == d[file_path].text
        turn == [c EXCEPT !.db_before = c.issues_db]
        r == reuse_loop(c.issues_db, a.current_issues, 1, file_path, content,
                        a.MAX_ISSUE_REUSE, a.DRY_RUN)
        what == apply_outcome(c.cache, file_path, fix, content, a.DRY_RUN)
        cached == [turn EXCEPT !.cache[file_path] = sha256(fix)]
    IN  IF ~exists(d, file_path) THEN [disk |-> d, cur |-> turn]
        ELSE IF carries_marker(content)
        THEN [disk |-> d, cur |-> turn]
        ELSE IF r.what = "apply"
        THEN reapply(turn, d, file_path, r.sid, backup_ok, how)
        ELSE IF r.what \in {"present", "dry"} THEN [disk |-> d, cur |-> turn]
        ELSE IF fix = None THEN [disk |-> d, cur |-> turn]
        ELSE IF what = "duplicate" THEN [disk |-> d, cur |-> turn]
        ELSE IF what = "noop" THEN [disk |-> d, cur |-> cached]
        ELSE IF what = "dry"
        THEN [disk |-> d,
              cur |-> [cached EXCEPT !.issues_db =
                          save_fix(@, a.current_issues, file_path, fix,
                                   content, a.in_excerpt)]]
        ELSE write_fix(turn, d, a, file_path, content, fix, backup_ok, how)

FileTurn(fix, backup_ok, how) ==
    /\ pc = "file"
    /\ cur.fi <= Len(arg.unique_files)
    /\ LET r == file_turn(cur, disk, arg, arg.unique_files[cur.fi], fix,
                          backup_ok, how)
       IN  /\ disk' = r.disk
           /\ cur' = [r.cur EXCEPT !.fi = @ + 1]
    /\ UNCHANGED <<AGGRESSIVE, target, dirs, ledger, last, pc, arg, res>>

\* Persist DB & cache, after the last file
PersistTree ==
    /\ pc = "file"
    /\ cur.fi > Len(arg.unique_files)
    /\ disk' = [disk EXCEPT ![ISSUES_DB] = cur.issues_db,
                            ![CACHE_PATH] = cur.cache]
    /\ pc' = "commit"
    /\ UNCHANGED <<AGGRESSIVE, target, dirs, ledger, last, cur, arg, res>>

\* Optional commit, then the summary and sys.exit(0)
CommitTree ==
    /\ pc = "commit"
    /\ cur' = [cur EXCEPT !.committed =
                  ~arg.DRY_RUN /\ arg.DO_COMMIT /\ cur.changed_files # {}]
    /\ pc' = "done"
    /\ UNCHANGED <<AGGRESSIVE, target, dirs, disk, ledger, last, arg, res>>

NextTree ==
    \/ \E how \in Writes : BeginTree(how)
    \/ \E fix \in FixTexts \cup {None}, backup_ok \in BOOLEAN, how \in Writes :
           FileTurn(fix, backup_ok, how)
    \/ PersistTree
    \/ CommitTree

SpecTree == InitTree /\ [][NextTree]_vars

----------------------------------------------------------------------------
(* Claims about a run of ai_fix.py over the working tree *)

\* C33: with --dry-run a run of ai_fix leaves every file of the working
\* tree as it found it, makes no backup and no commit
C33_DryRunTouchesNoFile ==
    arg.DRY_RUN =>
        /\ \A p \in TreeFiles : disk[p] = arg.start[p]
        /\ disk[Backups] = arg.start[Backups]
        /\ ~cur.committed

\* the files of unique_files whose turn is over
Turned == {arg.unique_files[i] : i \in 1..(cur.fi - 1)}

\* C37: a file whose write of an AI fix raised holds what it held before
\* the apply, is not among the changed files, and no resolution was stored
\* for it in its turn; the run goes on
C37_FailedWriteRestored ==
    \A f \in cur.failed :
        /\ disk[f] = File(cur.pre[f])
        /\ f \notin cur.changed_files
        /\ cur.issues_db = cur.db_before
        /\ pc \in {"file", "commit", "done"}

\* C40: a file that carries the marker when its turn comes is left as it
\* was: no stored resolution and no AI fix is written to it, no backup of it
\* is made, it is not among the changed files, and the issue memory stays as
\* it was when the turn began
C40_MarkerFileUntouched ==
    \A f \in Turned :
        contains(arg.start[f].text, DoNotModify) =>
            /\ disk[f] = arg.start[f]
            /\ f \notin disk[Backups]
            /\ f \notin cur.changed_files
            /\ cur.issues_db = cur.db_before

\* a run with writes allowed has passed over a file with the marker for
\* which a stored resolution was at hand, and has ended
C40_Witness ==
    /\ pc = "done"
    /\ ~arg.DRY_RUN
    /\ arg.MAX_ISSUE_REUSE = 1
    /\ arg.start[ISSUES_DB] = Earlier
    /\ arg.current_issues = <<Issue(<<"a">>)>>
    /\ \E f \in Turned : contains(arg.start[f].text, DoNotModify)

----------------------------------------------------------------------------
(* Claims about improver_loop.py run dry, and about the bound of its loop *)

C36_BoundedIterations ==
    /\ cur.builds <= arg.max_iterations
    /\ cur.builds <= cur.iteration
    /\ cur.restarts <= cur.iteration
    /\ (pc = "loop" => cur.restarts = cur.iteration)
    /\ cur.iteration <= arg.max_iterations

\* the loop has ended because max_iterations was reached, after restarts
C36_Witness ==
    /\ pc = "completed"
    /\ arg.max_iterations = MaxIterations
    /\ cur.builds = MaxIterations
    /\ cur.restarts = MaxIterations

----------------------------------------------------------------------------
(* ai_features.py: the queue file, apply_batch and mark_need_work_done *)

\* the feature texts of queue items: the first is part of the second
Features == {<<"p">>, <<"p", "s">>}

\* the checkboxes of a queue line: three that the pattern \[\s*\] takes
\* for unchecked, and the checked one
Unchecked == {"[ ]", "[]", "[  ]"}
Boxes == Unchecked \cup {"[x]"}

\* need_work.md: a line is a checkbox and a feature text
MaxLines == 2
QueueLine == [box : Boxes, text : Features]
Queues == UNION {[1..k -> QueueLine] : k \in 1..MaxLines}

\* the two files generated for a feature
FeatureFile(feature, kind) == [feature |-> feature, kind |-> kind]
view_path(feature) == FeatureFile(feature, "View")
vm_path(feature) == FeatureFile(feature, "ViewModel")

\* load_need_work: the texts of the unchecked lines, each with its line
\* number, in the order of the file
RECURSIVE unchecked_items(_, _)
unchecked_items(queue, i) ==
    IF i > Len(queue) THEN <<>>
    ELSE IF queue[i].box \in Unchecked
    THEN <<[text |-> queue[i].text, line |-> i]>> \o unchecked_items(queue, i + 1)
    ELSE unchecked_items(queue, i + 1)

\* targets = [...][:batch]
first_items(items, batch) ==
    SubSeq(items, 1, IF Len(items) < batch THEN Len(items) ELSE batch)

\* prefix.replace("[ ]", "[x]"), else prefix.replace("[]", "[x]"), else the
\* prefix as it is
checked(box) == IF box \in {"[ ]", "[]"} THEN "[x]" ELSE box

\* mark_need_work_done(feature, source): the first line with an unchecked
\* box whose text contains the feature is rewritten
mark_need_work_done(queue, feature) ==
    IF \E i \in 1..Len(queue) :
           queue[i].box \in Unchecked /\ contains(queue[i].text, feature)
    THEN LET i == CHOOSE j \in 1..Len(queue) :
                     /\ queue[j].box \in Unchecked
                     /\ contains(queue[j].text, feature)
                     /\ \A k \in 1..(j - 1) :
                            ~(queue[k].box \in Unchecked
                                  /\ contains(queue[k].text, feature))
         IN  [queue EXCEPT ![i].box = checked(@)]
    ELSE queue

\* the globals of a run of ai_features: cur while it runs
\*   targets   the picked items, each with the line it was read from
\*   i         the item in turn
\*   wrote     for every item processed, whether a file of it was written
NoBatch == [targets |-> <<>>, i |-> 1, wrote |-> <<>>]

InitQueue ==
    /\ WriterUnused
    /\ \E queue \in Queues, have \in SUBSET {FeatureFile(f, k) :
                                   f \in Features, k \in {"View", "ViewModel"}} :
          /\ \E i \in 1..Len(queue) : queue[i].box \in Unchecked
          /\ disk = [queue |-> queue, files |-> have]
    /\ \E dry \in BOOLEAN, batch \in 1..MaxLines :
          arg = [dry |-> dry, batch |-> batch, start |-> disk.queue]
    /\ cur = NoBatch
    /\ pc = "main"
    /\ res = {}

\* main: the queue is loaded and the first batch items are picked
MainQueue ==
    /\ pc = "main"
    /\ cur' = [NoBatch EXCEPT
                  !.targets = first_items(unchecked_items(disk.queue, 1), arg.batch)]
    /\ pc' = "batch"
    /\ UNCHANGED <<AGGRESSIVE, target, dirs, disk, ledger, last, arg, res>>

\* atomic_write of ai_features.py on a generated file: True when the file
\* was not there with the same contents
wrote_file(files, path) == path \notin files

\* one turn of "for t in targets" in apply_batch: the two files are written
\* when they differ, and the item is marked when one of them was written
ApplyItem ==
    /\ pc = "batch"
    /\ cur.i <= Len(cur.targets)
    /\ LET t == cur.targets[cur.i].text
           wrote_view == wrote_file(disk.files, view_path(t))
           wrote_vm == wrote_file(disk.files, vm_path(t))
       IN  IF arg.dry
           THEN /\ disk' = disk
                /\ cur' = [cur EXCEPT !.i = @ + 1, !.wrote = Append(@, FALSE)]
           ELSE /\ disk' = [queue |-> IF wrote_view \/ wrote_vm
                                      THEN mark_need_work_done(disk.queue, t)
                                      ELSE disk.queue,
                            files |-> disk.files \cup {view_path(t), vm_path(t)}]
                /\ cur' = [cur EXCEPT !.i = @ + 1,
                                      !.wrote = Append(@, wrote_view \/ wrote_vm)]
    /\ UNCHANGED <<AGGRESSIVE, target, dirs, ledger, last, pc, arg, res>>

\* the loop is over: the created files are committed and apply_batch returns
BatchDone ==
    /\ pc = "batch"
    /\ cur.i > Len(cur.targets)
    /\ pc' = "done"
    /\ UNCHANGED <<AGGRESSIVE, target, dirs, disk, ledger, last, cur, arg, res>>

NextQueue == MainQueue \/ ApplyItem \/ BatchDone

SpecQueue == InitQueue /\ [][NextQueue]_vars

----------------------------------------------------------------------------
(* Claims about the queue of ai_features.py *)

\* the lines of the items processed so far of which a file was written
WrittenLines ==
    {cur.targets[k].line : k \in {j \in 1..Len(cur.wrote) : cur.wrote[j]}}

\* C35: between two items of a run that is not dry, the queue file is the
\* one the run found with the line of every item of which a file was
\* written marked [x], and with every other line as it was
C35_MarkOnWrite ==
    ~arg.dry =>
        /\ Len(disk.queue) = Len(arg.start)
        /\ \A j \in 1..Len(arg.start) :
               disk.queue[j] = IF j \in WrittenLines
                               THEN [arg.start[j] EXCEPT !.box = "[x]"]
                               ELSE arg.start[j]

----------------------------------------------------------------------------
(* Claims about the processed set of improve_features_v2.py *)

\* the file whose turn it is
InTurn ==
    IF pc \in {"processing", "saving"} THEN {cur.prioritized[cur.i]} ELSE {}

\* C38: at every point of the loop the state file holds every file of the
\* processed set but the one in turn, so a run started after a crash at
\* that point passes over all of them
C38_ProcessedSurvivesCrash ==
    pc \in {"files", "processing", "saving", "done"} =>
        (cur.processed \ InTurn) \subseteq load_state(disk)

\* C39: while a run with --dry-run goes on, and when it has ended, the
\* state file holds the processed set the run found
C39_DryRunKeepsProcessed ==
    (pc \in {"files", "done"} /\ arg.dry) => disk[STATE_FILE] = cur.loaded

====
